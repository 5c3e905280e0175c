# xiaohei-worker in TLA+

xiaohei-worker is an HTTP server that answers requests with JavaScript service
workers. A request for `/hello` runs the script that `hello/manifest.json`
names: the script's `fetch` listeners get an event, and answer it with
`event.respondWith(...)`, at once or with a promise. This directory holds TLA+
models of the server, the TLC configurations that check them, and TLAPS proofs
of their invariants. Paths below are those of the repository, with `src/`
in front (`src/src/core/...`).

## The system

**Server** (`core/main_context.cc`). libhv runs `http_server_thread_num` threads,
each with an event loop. `http_handler` turns the path into a key, asks the
container for the worker of that key, and lets it handle the request; without a
worker the answer is a 404.

**Container** (`core/container.cc`). Thread-local map from keys to workers. A key
that is not there is *installed*: manifest and script are read, a V8 isolate is
made, the script is compiled. Only workers without an error are kept. State: the
map. Hard: several threads install the same key while the files change.

**Worker** (`core/worker.cc`). One script on one thread: manifest, `error_code_`,
runtime. `handle_http_request` makes a `RequestScope`, takes a context from the
runtime, dispatches the event, and then ends the scope or leaves it waiting.

**Runtime and contexts** (`runtime/v8rt/v8rt.cc`, `v8js_context.cc`). An isolate and
a queue of idle `V8JsContext`s. Each context has run the whole script once and
has the listeners it registered. Contexts are lent to requests and recycled. A
context also keeps `respose_promise_`, the promise given to `respondWith`. Hard:
who recycles, when, and what a recycled context still carries.

**Request scope** (`core/request_scope.cc`). Everything of one request: the error,
the response, whether a response was sent, fetches, waitUntil promises, and a
heap for the C++ objects made while the request runs. `handle_response` answers
from inside the handler; `handle_waitings` is called at the end of *every*
callback of the request and sends fetches, answers, and ends the scope when all
is done. It deletes itself. Hard: three kinds of callbacks in any order, each of
which may be the one that ends the scope.

**Fetch** (`runtime/v8rt/v8js_fetch.cc`, `bindings/.../fetch/fetch.cc`). Reference
counted, because the loop and the thread of the HTTP client both hold it. The
answer comes on the client's thread and is queued to the loop. Hard: the scope
may end at any moment in between.

**Timers** (`bindings/.../timer.cc`). `setTimeout` and `setInterval`; a timer lives in
the heap of the scope and is killed by its destructor. Hard: a timer uses its
scope without a check.

**Fetch event, listeners, event target** (`bindings/.../event/`, `lib/webapi/`).
`respondWith`, `waitUntil`, the call of a listener and what becomes of its
exception or promise; `dispatchEvent` goes through the listeners until one has
called `respondWith`.

**Web streams** (`bindings/.../webstreams/`): a `ReadableStream` whose controller
starts and pulls its source; most other methods only print. **Headers, Request,
Response** (`lib/webapi/fetch/`): accessors, and a conversion of script values to
headers. **Isolate data and classes** (`lib/v8wrap/`, `bindings/.../serviceworker.cc`):
the templates of the JS classes, and the internal field in which each object of a
class keeps a pointer to its C++ object. Hard: some constructors do not set the field,
the methods do not check it, and the C++ object may be gone before the JS object.
**Heap** (`lib/common/heap.h`), **base64**, **start-up** (`cmd/worker`, `MainContext::run`).

What makes each of these correct, and what is hard to test in it, is listed line
by line under `hazards` in PROJECT.json, with the properties that cover it.

## Modules

| module | what it is |
|---|---|
| `FetchContext` | one `V8FetchContext` as a record and the operations on it |
| `RequestScope` | one `RequestScope` as a record, and the functions of the class that touch nothing else |
| `WorkerLoop` | one worker on one event loop: contexts, scopes, fetches, timers, the script; extends the two above |
| `ContextLease` | abstract: what the pool of contexts promises |
| `WorkerLoopLease` | the refinement mapping from `WorkerLoop` to `ContextLease` |
| `HttpExchange` | abstract: what a worker promises to its clients |
| `WorkerLoopExchange` | the refinement mapping from `WorkerLoop` to `HttpExchange`; what a waiting request waits for |
| `WorkerLoopProofs` | theorems about `WorkerLoop`: contexts, references, timers; it implements `ContextLease` |
| `WorkerLoopAnswersProofs` | theorems about `WorkerLoop`: answers, the end of scopes, disciplined scripts; it implements `HttpExchange` |
| `Container` | threads, keys and files: from the path to the worker |
| `ContainerProofs` | theorems about `Container` |
| `EventTarget` | the listeners of a context, their mutex and their heaps; composed with `ContextLease` |
| `EventTargetProofs` | theorems about `EventTarget` |
| `ReadableStream` | streams, their controllers, and the microtasks that drive them |
| `ReadableStreamProofs` | theorems about `ReadableStream` |
| `JsObjects` | the JS objects of a context, their pointers to C++ objects, and the heaps these are in |
| `JsObjectsProofs` | theorems about `JsObjects` |
| `TimerIds` | 64 bit timer ids and the 32 bit numbers scripts have of them |
| `TimerIdsProofs` | theorems about `TimerIds` |
| `ResponseInit` | from the arguments of `new Response` to status and headers |
| `ResponseInitProofs` | theorems about `ResponseInit` |
| `MCWorkerLoop`, `MCContainer`, `MCEventTarget`, `MCReadableStream`, `MCResponseInit`, `MCJsObjects`, `MCTimerIds` | instances for TLC: symmetry, sets of inputs and habits |

### WorkerLoop

The event loop runs one callback at a time, so the model has a variable `turn`:
the callback that runs, for which request, and which listener. A step is one of

- the **loop**: `HandleHttpRequest` (up to the first listener), `TimerExecute`,
  `FulfillPromise`, each only when no callback runs;
- the **script**, while one of its turns runs: `RespondWithResponse`,
  `RespondWithInvalid`, `RespondWithPromise`, `WaitUntil`, `SettlePromise`,
  `RejectListener`, `GlobalFetch`, `SetTimer`, `KillTimer`. Each is the whole
  binding the script calls;
- the **end of a turn**: `ListenerReturns`, `Respond` (the rest of
  `Worker::handle_http_request`, after `dispatchEvent`), `CallbackReturns`. The
  last two run `HandleWaitings` and, in it, `Destroy` and `Recycle`, in one step,
  as the code does: no script runs inside them and the loop is not left;
- the **HTTP client's thread**: `SendAsyncDone`, `SendAsyncFailed`, between any two
  of the others.

The variables are the objects of the code: `pool` is `context_queue_`; `ctx` the
`V8JsContext`s with the scope pointer in their embedder data, `respose_promise_`
and the number of listeners; `scope`, `fetch` and `timer` the objects of these
classes; `promise` the values of the script's own promises; `wire` what a client
was sent and which request's script built it; `fault` the undefined behaviour
the code ran into: `"use_after_free"` (a callback, or the answer, uses a scope or
a response that is gone) or `"bad_cast"`. Nothing happens after a fault.

*Scripts.* A script is any sequence of these calls. What the model assumes of it
is the constant `Habits`, a set of

| habit | the script, or the network |
|---|---|
| `responds_once_in_handler` | calls `respondWith` once, before its listener returns, or throws |
| `awaits_fetches` | while a fetch is under way, a pending promise (the answer, or a waitUntil) keeps the request alive |
| `fulfills_with_response` | fulfils the promise it answers with by a `Response`, and does not reject |
| `settles_promises` | leaves a promise pending only if a fetch or a timer will run it again |
| `clears_own_timers` | clears only timers of its own request |
| `loads_cleanly` | loads without an exception each time it is run |
| `fetches_answered` | (network) every fetch gets a response |

With `Habits = {}` every script is a behaviour of the model. Each habit excludes
a case the code does not handle; which, is under *What the checks show*.

*Abstractions.* A promise is a name; a `Response` is the request whose script
built it, and its status. Promises returned by `fetch()` are settled by the step
`FulfillPromise`, after which the script runs and may settle its own. Fetch
answers reach the loop in any order (libhv keeps the order of `queueInLoop`; the
model allows more). V8 runs microtasks at the end of every call from C++
(`kAuto`, the default the code leaves), so the script's continuations run inside the
turn that settles a promise. Scripts do not share promises or events across
requests, call `addEventListener` at the top level only and set timers in callbacks of
a request only: what happens when they do not is the subject of `EventTarget`.

`HttpExchange` is what a client may rely on: its request is open, then answered, once
and by the script that ran for it, then closed; or closed by its answer. In
`WorkerLoopExchange` a request is open while its scope is live and has not sent, answered
while the scope is live and has sent, and closed when the scope is deleted; the answers are
`wire`.

### Container

Several threads, each in at most one `http_handler`, and somebody who edits the
files. `HttpHandler` finds the key in the thread's map or begins to install it;
`FindManifest`, `ParseManifest`, `FindEntry` and `ReadEntry` are the file
operations of `Worker::ReadManifest`, a step each, because the files may change
between them; `InstallWorker` is the constructor of `Worker`, `prepare_runtime`
and the rest of `install_worker`; `Serve` answers. A manifest of a known runtime is the
*name* of the entry it gives, which the call remembers (`name`) and looks up, whatever the
manifest says by then; each key has a file, or none, for every name. The content of the
scripts is abstracted to what `ReadManifest` and `compile` tell apart. A missing field in
the manifest throws an exception nobody catches: the process ends (`fault`).
`told` remembers what each thread last answered for each key, and `amiss` whether the
files were `Disturbed` at some moment of the request under way: out of order, or with a
manifest that names another entry than the one the request has read in it.

### EventTarget

The other side of a request: what `WorkerLoop` takes as one list of listeners. Each
context has a target with `listeners`, each with the heap it was allocated in (that
of the request in the context's embedder data, which is `embedded` and never reset,
or `None`, that of the script), and a mutex `locked`. `HandleHttpRequest` and
`HandleOnNewContext` are the lending of a context, by `Lease == INSTANCE ContextLease`,
with the first half of `handle_http_request`; the second loads the script again, and
may leave any list of listeners and an error. `CallListener`, `ListenerReturns` and
`DispatchEnds` are the loop of `dispatchEvent`; `RespondWith` and `AddEventListener`
what the script calls. When a scope ends is `WorkerLoop`'s question: here
`TurnEndsScope` may end it with any of its turns. `GlobalFetch` adds to `fetching`, the
fetches with the scope and the context they were made in. They do not end with the scope,
which only drops its reference: `FulfillPromise` allocates the `Response` in the scope that
is in the context by then, runs the script, and ends in `handle_waitings` on its own scope,
live (`TurnEnds`) or gone (`FetchEndsLate`). A timer set while the script is
loaded runs as `TopTimerBegins` and ends in `handle_waitings` on a null pointer.
`fault` is `"use_after_free"`, `"deadlock"` or `"null_scope"`. Habits:

| habit | the script |
|---|---|
| `first_responds` | a listener that is called calls `respondWith` before it returns |
| `adds_outside_dispatch` | adds no listener while one is called |
| `no_top_level_timers` | sets no timer while it is loaded |
| `awaits_fetches` | keeps its request alive while a fetch of it is under way |

### ReadableStream

`NewStream` is the constructor with `setupReadableStreamDefaultControllerFromSource`
and the call of `start`; `Settle` is the script settling a promise that `start` or
`pull` returned; `RunReaction` runs the next microtask: the four reactions of the
controller, two of which end in `CallPullIfNeeded`. `started`, `pulling` and
`pullAgain` are the fields of the controller. Streams belong to a request, any request
may settle their promises, and scopes end between turns, after the microtasks. The one
habit, `settles_in_time`, is that no promise is settled after the request of its stream;
without it the reaction finds the controller freed (TLC shows it). The state of a
stream, its reader and its queue never change in the code, so `ShouldCallPull` is left
with `started_` and the high-water mark, and `pull_again_` is never set: a source is
pulled once, whatever it enqueues.

### ResponseInit

A sequential program: `at` is where `fetch_response_js_constructor` is, and each of its
two loops is an action per round. `ReadOptions`, `ReadStatus` and `ReadHeaders` are the
code up to `init_headers`; `ConvertEntry` or `RejectEntry` is a round of the loop of
`convert_object_map` over an array, `ConvertProperty` one over the properties of an object,
`AppendHeader` one of the loop of `init_headers`, and `SetHeaders` the end. `map` is the
vector of pairs that was converted, and `filled` says how many of them were appended. The
input is any short one; the program stops (`Ended`) at `"ok"`, `"throws"` or `"abort"`,
which is a `ToLocalChecked` or `FromJust` that ends the process. A run that stops anywhere
else is a deadlock, which TLC looks for. A joined value is the sequence of its parts; an
array of headers holds nothing but pairs, arrays of one or three elements, and one other value.

### JsObjects

One context and the requests that use it one after the other. The script keeps a few
objects; each has its class, its `pointer` (the internal field: the class and the heap of
what was stored, or `Unset`), who made it, and which request had the context (`Holder`)
when the field was set. `NewResponse` is `new Response`, whose constructor sets the field;
`NewEmpty` is `new` of a class with an empty constructor, or an object of no class of the
bindings. `NewStream` is the constructor of `ReadableStream` with the controller it gives to
the source; `ListenerGetsEvent`, `RequestGetter` and `FulfillPromise` make the objects the
bindings give. The C++ objects go to `Heap`, which follows the scope in the context
(`embedded`, never reset).

`IsInstanceOf` is `instanceof`, and so up to the script: `ChangePrototype` disguises an
object, and the answer for one that is disguised, or of no class of the bindings
(`Object.create(Response.prototype)`), is any. `CallResponse` is `Response` called without
`new`, which sets the field of whatever it is called on. Methods are called on any object,
too: V8 does not check the receiver, for the templates have no signature.
`RespondWith`, `CallMethod` (`request.method`, `enqueue`, `desiredSize`),
`AddEventListener` and, at the end of a turn, `handle_response` use a pointer; `Misuse`
says what is wrong with it: there is no field, it was never set, set to another class, or
freed.

A turn is the load of the script, the handler of a request, a timer or the answer to a
fetch of a request, or a timer set while loading. The scope of a fetch may have ended: then
the answer is given while another request has the context, or none has. Whatever then needs
the scope in the context, or that of the fetch, or of the top-level timer, fails
(`UsesGoneScope`, `EndsWithoutScope`). `fault` is the first use that fails, with the method,
the object, the turn and the holder. A script may keep an object for as long as it likes,
and forget it at any time.

### TimerIds

`next` is the id libhv gives next; every timer has its whole id, and scripts have
`Handle`, the id narrowed to an int32 (`Narrow`). `ClearTimer` passes the number back and
kills by it; the destructor of a timer (`ScopeEnds`) kills by the whole id. Timers of other
scripts and of the server take ids from the same count. 2^31 is the constant `Half`.

## What the checks show

| run | specification and bounds | shows |
|---|---|---|
| `any_script` (AnyScript.cfg) | every script; 2 requests, 2 contexts, a listener, a promise, a fetch, an interval timer, responses of status 0 | see below |
| `disciplined` (Disciplined.cfg) | the first three habits; a timeout, 2 promises, which get a `Response` of the script's top level or some other value | no undefined behaviour; each client is answered once, by the script of its request, before that is closed |
| `liveness` (Liveness.cfg) | all habits, fairness; 2 listeners, a timeout | no undefined behaviour, no request is left waiting for nothing, every request is answered, every scope and fetch is deleted |
| `container` (Container.cfg) | 2 threads, a key, 2 names of entries, 2 workers, 2 versions of a script | see below |
| `event_target` (EventTarget.cfg) | every script; 3 requests, 2 contexts, 2 names of events, 2 listeners | see below |
| `event_target_first` (EventTargetFirst.cfg) | all four habits, fairness; 2 requests, 3 listeners | nothing freed is used, and `dispatchEvent` returns |
| `readable_stream` (ReadableStream.cfg) | promises settled in time, fairness; 2 requests, 2 streams | see below |
| `response_init` (ResponseInit.cfg) | all arrays and objects of up to 3 entries, 3 names of which two differ in case, 2 values | see below |
| `js_objects` (JsObjects.cfg) | every script; 2 requests, 2 objects kept at a time | see below |
| `timer_ids` (TimerIds.cfg) | 3 timers, 2 requests, numbers of 2 bits, 7 ids | see below |
| `late_rejection`, `unchecked_cast` | | two findings |

`any_script`, for every script:

- `ContextOwnership`: a context is in the queue once, or held by one live scope whose
  pointer it has; none is lost; none with an error is queued. The handler and
  `~RequestScope` both recycle, and the model takes every path to either.
- `CallbacksConsistent`: a callback runs for a live scope, and `runtime_context_` is
  set exactly while the scope waits, which is why the two never both recycle.
- `FetchReferences`: references of a fetch are its live scope and its pending callback.
- `DeadScopeSettled`: a scope ends only when it was answered and each waitUntil
  is fulfilled (so a rejected one keeps it, and its context, for ever).
- `TimersDieWithScope`: no timer of a deleted scope is left in the loop.
- `IdleScopesAreWaiting`: between callbacks no scope has something to do that no
  callback will do. `handle_waitings` at the end of each callback is enough.
- `AnswersOnce`: a client gets one answer, in the step that marks it as sent.
- `LeaseSpec`: the loop implements `ContextLease`, also when a script fails to load.

`NoFault` is checked in two runs, and needs the first three habits: it fails without
`awaits_fetches` (`fulfill_promise` uses a deleted scope), without `fulfills_with_response`
(the cast without a check, a finding) and without `responds_once_in_handler` (a promise
left in a recycled context holds a response that is gone); it holds without the
others, and these three are all the theorem assumes. `ExchangeSpec` says that the
loop implements `HttpExchange`: what is marked as sent was sent, once, and to the request whose
script built it. It fails without `responds_once_in_handler`, and without
`fulfills_with_response`: a promise that an earlier request left in the context, fulfilled
with a `Response` of the script's top level, which outlives requests, answers a later request.

`NobodyIsForgotten` is what a safety property can say of the answer that must come: between
callbacks every live scope has a fetch that was sent, or a timer that is armed, so that its
script will run again. It says more than `IdleScopesAreWaiting`, which holds for scripts that
wait for nothing as well; with `fetches_answered` and fairness the next callback comes, and
`EveryRequestAnswered` is the conclusion. Each liveness property fails without each habit,
except that `EveryFetchFreed` does not
need `loads_cleanly`: a failed fetch never settles its promise (`fetches_answered`), a
request is dispatched to a context that has an error (`loads_cleanly`), and a script
may wait for nothing (`settles_promises`, `clears_own_timers`).

`container`: `WorkersStayHome` (a worker and its isolate stay with the thread and
the key they were made for, and the map holds no error), `GoodWorkersAreCached` (a
worker that can serve is never lost or doubled), `AnswersStick` (a thread serves the
first good script for ever), `ErrorsAreFresh` (an error is served only if, at some moment
of that very request, the files were out of order or the manifest was pointed away from the
entry whose name the request had read: no error is kept). The last is why a key whose files
are put right is served. It does not say that a deployment is safe if its files are in
order at every moment: when an entry is added, the manifest is pointed to it and the old entry is
removed, a request that has read the old name serves "entry not found", once. Nor do the
properties pair a script with its manifest: an answer may come from the entry of one
deployment under the manifest of another, and is then kept.

`event_target`, for every script, of which some listeners outlive their heap and some fetches
their scope: `AllocatesInLiveHeap` (a callback allocates in the heap of the live request
that has the context, though nobody resets the pointer in it; that is its own request, but
for a fetch whose scope has ended, which may put its `Response` into the heap of another),
`FirstListenerIsTopLevel` and `DispatchSeesFixedTarget` (no iterator of the loop is
invalidated: who would add a listener blocks). `event_target_first` is the question
they answer together: requests leave freed listeners in the target, but behind one
of the script, which cancels the event. Each of the four habits of the run is
needed for `NoFault`: without `awaits_fetches` the answer to a fetch allocates in a heap that
was freed, or calls `handle_waitings` of a scope that is gone.

`readable_stream`: `PulledAfterStart`, `PullingIsExact`, `AssertionsHold` (the assertion
of the standard that the comments quote and the code does not check: whenever a reaction to
`start` runs, its controller is neither started nor pulling), `NoFault` (the
checkpoint of a turn comes before its scope can go) and `EveryStartIsPulled`.

`response_init`: `HeadersAreJoined` compares what the two loops made with the values given
for a name in any case: as many, and each in its place. `OnlyPairsAreTaken` says that a
response is made only of pairs, that one that was refused has no headers, and that the first
entry that is no pair makes the constructor throw, wherever it is.

`js_objects`: `MadeInHeapOfHolder` (what is behind an object is in the heap of the request
that had the context when its field was set, and of its class unless the script set it) and
`FaultsHaveACause`. The code checks no pointer, so scripts do reach misuses; the property
lists what they are:

- an object disguised as one of the bindings, or the method of another class called on one;
- `new EventTarget()`, `new FetchEvent()`, `new Request()` and
  `new ReadableStreamDefaultController()`, whose methods read a field nobody set;
- `desiredSize`, which takes a controller for a stream;
- an object used after the request that had the context when its field was set;
- `new ReadableStream()`, which has no source;
- a scope that is gone, in the answer to a fetch of a request that has ended or in a timer
  set while loading, and the scope the latter does not have.

Everything else is safe in every order: what the bindings give, and what `new Response`
makes, can be used by its own methods for as long as the request lasts that had the context.

`timer_ids`: `ClearedTimersStop` (a timer whose id is below 2^31 and that was cleared never
runs again) and `StopsHaveACause` (a timer stops only when it was meant, when the number
that was passed is of one 2^32 ids younger, or when its own scope ends). A timer with an
id from 2^31 on may not stop when it is cleared, and another may: the first conjunct has
no assumption that excludes it.

*Findings.* `late_rejection`: the comment of `event_listener.cc:66` says a rejected
promise of a listener sets the error of the scope; a listener rejected after an
await sets nothing. `unchecked_cast`: `get_promised_respose` unwraps whatever the
promise was fulfilled with; `js_value.h:56` asserts an internal field.

*Bounds.* Two requests are enough for one to run on the context another left, and
to overlap in every way. One fetch and one timer per run can belong to any
request and race with each other, the answer and the end of the scope. As many
contexts as requests are enough, because a request takes at most one. In `any_script` a
response has status 0, which the handler takes for none, so that its scope is ended by
`handle_waitings`; an error answers 500 and is ended by the handler, as a response of
status 200 is in the other runs. There is a
finite number of requests, so the system stops when all are done:
`CHECK_DEADLOCK FALSE` in every cfg of `WorkerLoop`, and of `JsObjects`; a fault, and in `Container` the
end of the process or of the free worker slots, stop it too. In `Container` two worker
slots let each thread have one, or one thread leak a bad one and cache a good
one; threads share nothing but the files, and keys nothing at all. In `EventTarget`
the third request lets one run between the request that left a listener and the
one that finds it, and three listeners leave room for one of the script, one that was
left behind and one of another event. `ReadableStream` stops when
all is made; two streams let the microtasks of one run between those of the other.
Three entries of headers are two of one name with another between them, or a wrong one with
something before and after it.
The promises of `disciplined` are never fulfilled with a `Response` of the request itself, so
that the run stays small; those of `liveness` are, and those of `any_script`, which may be
rejected too.
In `Container` two names are an entry that is replaced and the one that replaces it.
In `JsObjects` two objects are an event and what is given to it, or a stream and its
controller; no call uses more. A second request is what makes an object, or a fetch,
outlive its scope. In `TimerIds` the
numbers wrap at 4 ids, so that two of the 7 ids can have the same number; `MaxId` stops
the count, `CHECK_DEADLOCK FALSE`.

*Fairness.* `WorkerLoop!Fairness`: a turn ends (a script that loops for ever blocks
its thread, in the code too); a turn that cannot end before the script
settles a promise settles it; the loop gets to timers and queued callbacks; the client answers each
fetch it was given. Nothing is assumed of the arrival of requests or of what
scripts call. `EventTarget!FairSpec`: a script that is called returns, and responds if its habit is to
respond. `ReadableStream!FairSpec`: a checkpoint runs all microtasks, which is what
V8's does.

## What is proved

`tlapm` proves, for all values of the constants:

- **`WorkerLoopProofs`**: `TypeCorrect`, `ContextsAreLentOnce` (`ContextOwnership`),
  `ReferencesAreExact` (`FetchReferences`), `TimersNeverOutliveScopes`
  (`TimersDieWithScope`) and `CallbacksRunForLiveScopes` (`CallbacksConsistent`), for
  every script. The inductive invariant `IInv` is their conjunction.
  `CallbacksConsistent` is what makes it inductive: at the end of a turn the scope
  is live, and its `runtime_context_` says who recycles; without it `Destroy` could
  recycle a context that is already queued. `FetchReferences` needs that no
  `fulfill_promise` is on the stack outside its own turn. The proof follows the
  code: lemmas for `Keep`, `Recycle`, `Destroy`, `HandleWaitings`, one for each
  callback, one for the calls of the script, which only edit one record.
  And `LeaseIsKept`, the refinement of `ContextLease`: the initial
  states map to initial states; with `IInv`, `get_context` is a step that lends, `Recycle` one
  that gives back, and every other step of the loop leaves the lease alone.
- **`WorkerLoopAnswersProofs`**, for every script: `DeadScopesAreSettled`
  (`DeadScopeSettled`), `WaitingScopesAreWaiting` (`IdleScopesAreWaiting`) and
  `ClientsAreAnsweredOnce` (`AnswersOnce`). The invariant `AInv` adds to `IInv` that nothing was written for
  a scope that has not sent (`SentMarksAnswer`), that a handler has not sent
  (`HandlerHasNotSent`), and `SavedIsOwnOrDead`: the promise saved in a context is of the request that holds it, or
  of one that is gone, so that no other turn can settle what a scope waits for.
  For scripts with the first three habits: `DisciplinedScriptsDoNotFault` (`NoFault`),
  `DisciplinedAnswersArrive` (`SentReachesClient`) and `DisciplinedAnswersAreOwn`
  (`OwnAnswer`). The invariant `DInv` adds what the habits buy (`GoodAnswers`): when a
  listener may not respond any more, its request was answered, has an answer or an error
  for the end of the handler, or has left no promise of another request in its context;
  what was sent is its own; and a request with a fetch under way lives and has a pending
  promise. And a saved promise is pending or a `Response` (`SavedIsUsable`).

  `ExchangeIsKept`, for the same scripts, is the refinement of `HttpExchange`. A step of the
  loop moves at most one request (`OneRequestMoves`): what `DInv` says of it before and
  after, that a scope that has sent has written its own answer and that a deleted one has
  sent, makes the move an arrival, an answer, a close, or none.

  `NobodyIsEverForgotten` (`NobodyIsForgotten`), for scripts with every habit. The property
  speaks of the moments between callbacks, and is not inductive: the invariant `FInv` says what is true
  inside them. Until its client is answered, a scope has a handler that may still respond, or
  an error or answer for the end of the handler, or a saved promise (`Answerable`). And what a
  scope awaits is cared for (`Cared`): unless its own script runs, which may still settle it,
  there is a fetch under way or an armed timer of that very request. The turns of other
  requests cannot take these away; its own turn can only end in a state in which
  `settles_promises` holds or the scope is deleted, with its timers. `EveryContextListens`
  is what a request without a listener would break, and `NothingRejected` a rejected promise.
- **`ContainerProofs`**: `TypeCorrect`, `WorkersNeverMove`, `GoodWorkersAreNeverLost`,
  `AnswersNeverChange` and `ErrorsComeFromFiles` (`ErrorsAreFresh`). The invariant adds `CallsFollowTheMap` (while a worker is made,
  its key is not in the map, so installing replaces nothing; a call that looks for its entry has
  a name for it) and `ToldByCached` (what was told by a script is the script of the cached
  worker). `ErrorsComeFromFiles` is the invariant that a call that has found an error, or
  will get one from the script it has read, has `amiss` set.

- **`EventTargetProofs`**: `TypeCorrect`, `ObjectsGoToLiveHeaps`
  (`AllocatesInLiveHeap`), `MutexIsReleased` (`LockedDuringDispatch`), `ScriptListensFirst`
  (`FirstListenerIsTopLevel`) and `TargetsAreFixed` (`DispatchSeesFixedTarget`) for every
  script, and `RespondersAreSafe` (`NoFault`) for scripts with the four habits of the
  run. The invariant adds `ContextsAreLentOnce`, the facts about lending: a held context
  names its request, which is why the embedded scope is that of the callback; and
  `EmbeddedWereLent` and `FetchesOfRequests`: a scope in a context, or with a fetch there,
  has that context for as long as it lives. For `NoFault`, `FetchesAreAwaited` (a fetch under
  way is of a live scope) and `FirstCallOnly`: with these habits a dispatch calls one listener,
  the first for the event, which is the script's, and no callback runs without a request.
- **`ReadableStreamProofs`**: `TypeCorrect`, `SourcesArePulledAfterStart`,
  `PullingFlagIsExact` and `AssertionsAreTrue` for every script, and
  `ReactionsFindTheirController` (`NoFault`) if promises are settled in time. The invariant
  `Consistent` ties the reaction of a stream that is due to the promise that was settled
  last; a stream has at most one, so the queue may be looked at as a set. It also shows
  that `pull_again_` is never set.
- **`JsObjectsProofs`**: `TypeCorrect`, `ObjectsLiveInHeapOfHolder` (`MadeInHeapOfHolder`)
  and `MisusesHaveACause` (`FaultsHaveACause`), for every script. The invariant adds
  `TurnIsEmbedded`: the scope in the context, which nobody resets, is the live one if there is
  one, so that what is allocated is in the heap of the holder (`HeapIsHolders`) unless that
  scope is gone, when only a late fetch or a timer of the script itself can run; and
  `ObjectsAreSound`, what the field of an object may hold, by its class and maker.
- **`ResponseInitProofs`**: `HeadersJoin` (`HeadersAreJoined`) and `PairsOnly`
  (`OnlyPairsAreTaken`), for inputs of any length. The invariant is that of the loops: what
  `map` holds are the first items, all of them pairs (`MapIsPrefix`), the headers
  are the join of the first `filled` of them (`JoinedUpTo`), and `Progress` says what is done at each
  place. That appending keeps the join is a lemma on cardinalities (`AppendJoins`): the place of
  a value among those of its name is the number of items for it up to there.
- **`TimerIdsProofs`**: `ClearingWorks` (`ClearedTimersStop`) and `OthersAreSpared`
  (`StopsHaveACause`), for every width and any number of timers. The ids are distinct, and
  a number that was narrowed is the id, at least 2^32 below it, or negative.

The assumptions are the named ASSUMEs of the modules: None differs from the objects, there
is a listener, statuses are numbers, the sets of inputs and habits are what their comments
say, `Half` is positive. TLC evaluates them in every run. The theorems that need habits
name them in an ASSUME of their own.

Every safety property and action property of the passing runs, and both refinements, are
stated by a theorem. Three theorems are of properties that no run checks: `DisciplinedAnswersArrive`
(`SentReachesClient`) and `DisciplinedAnswersAreOwn` (`OwnAnswer`), which `ExchangeSpec`
implies, and `MutexIsReleased`
(`LockedDuringDispatch`, a part of the inductive invariant of `EventTarget`).

Only model-checked: liveness, which is out of the prover's reach (`EveryRequestAnswered`,
`EveryScopeFreed`, `EveryFetchFreed`, `EveryDispatchReturns`, `EveryStartIsPulled`), and the
two findings. The theorems give the first of these its invariants; the fairness argument is TLC's.
The bound on numbers of `TimerIds`, `MaxId`, and the finite sets of all runs are not needed
by any proof.

## What is not modelled

`removeEventListener` and `dispatchEvent` of the script (empty functions) and events sent
to targets other than the global one (nothing sends them); `enqueue`, `close` and `error`
of a controller and `CountQueuingStrategy` (they change no state; that `enqueue` uses its
pointer is in `JsObjects`); in `JsObjects`, `waitUntil` and `setTimeout`, which use the scope as
`fetch` does and no pointer of an object; the texts of request objects. Not planned: start-up, flags and configuration
(straight-line code run once), shutdown in the signal handler (it ends the process),
registration of methods in class templates, the statistics of the allocator, base64 (a
library call), keys as text (a key is a model value; that the path `/` has undefined
behaviour is listed as a hazard), logging and texts, V8 and libhv themselves except as the
modules use them.

## Plan

Done: all modules of the table, with proofs of their safety properties and of the two
refinements. What could follow: that every dispatch of `EventTarget` is the dispatch
`WorkerLoop` takes as one list of listeners, as a third refinement; that the worker a
`Container` serves is the one whose loop `WorkerLoop` models, which needs a contract for
`Worker::handle_http_request`; the lemmas about sequences, which two of the proof modules
keep for themselves; and the abstract stream of the standard, once the code has readers and
a queue.
