------------------------------ MODULE JsObjects ------------------------------
(***************************************************************************)
(* The JS objects of one context and the C++ objects behind them, over the *)
(* requests that use the context one after the other (ContextLease).       *)
(*                                                                         *)
(* A JS object of a class of the bindings has an internal field for the    *)
(* pointer to its C++ object.  Who fills it depends on the class: the      *)
(* constructor, the C++ code that makes the object, or nobody.  The C++    *)
(* object lives in the heap of the request scope that is embedded in the   *)
(* context, or in that of the script itself; the JS object lives for as    *)
(* long as the script keeps it.  A method trusts the pointer of whatever   *)
(* object it is called on; where the class of an object is asked for, the  *)
(* answer is that of instanceof, which a script can change.                *)
(*                                                                         *)
(* The script also runs when the scope in the context is gone: in a timer  *)
(* it set while it was loaded, and in the answer to a fetch of a scope     *)
(* that ended before it.  Promised responses are in WorkerLoop, listeners  *)
(* in EventTarget, the work of a stream in ReadableStream.                 *)
(***************************************************************************)
CONSTANTS Request,
          Object,       \* JS objects the script can keep at a time
          None

ASSUME NoneAssumption == None \notin Request

\* The templates of setClassTemplate of which there are objects, and the C++
\* class of the pointer their methods expect; of a stream there are none.
JsClass == {"EventTarget", "FetchEvent", "Request", "Response",
            "ReadableStream", "ReadableStreamDefaultController"}

Behind == [c \in JsClass |->
              CASE c = "FetchEvent" -> "Event"
                [] c = "Request" -> "FetchRequest"
                [] c = "Response" -> "FetchResponse"
                [] OTHER -> c]

CppClass == {Behind[c] : c \in JsClass}

\* A pointer: the class of what it was set to, and the heap that is in, None
\* for the heap of the script.  "nothing": the field was never set.
Unset == [class |-> "nothing", heap |-> None]
Pointer == {Unset} \cup [class : CppClass, heap : Request \cup {None}]

\* An object; one of no class of the bindings, an "Object", has no field, and
\* "Disguised" is one of theirs that the script changed: its prototypes, or what
\* it points to.  by: who made what it is, the script or the bindings; born:
\* which request had the context when its field was set.
ObjectType ==
    [class : JsClass \cup {"ServiceWorkerGlobalScope", "Object", "Disguised"},
     pointer : Pointer,
     by : {"script", "bindings"},
     born : Request \cup {None}]

NoObject ==
    [class |-> "nothing", pointer |-> Unset, by |-> "script", born |-> None]

\* The global object, made from its template by V8, and the same disguised.
Globals ==
    {[class |-> "ServiceWorkerGlobalScope", pointer |-> Unset,
      by |-> "bindings", born |-> None],
     [class |-> "Disguised", pointer |-> Unset, by |-> "script", born |-> None]}

\* The prototypes of x are up to the script.
Faked(x) == x.class \in {"Object", "Disguised"}

\* Bug: every object is taken for an instance of every class.
InheritsAll(c, d) == TRUE

\* The class of the global object inherits from EventTarget.
Inherits(c, d) == c = d \/ (c = "ServiceWorkerGlobalScope" /\ d = "EventTarget")

\* What IsInstanceOf may say of x and the class d: instanceof follows the
\* prototypes of x.
IsInstanceOf(x, d) == IF Faked(x) THEN BOOLEAN ELSE {Inherits(x.class, d)}

VARIABLES
    object,     \* the objects the script has
    embedded,   \* V8_JS_CONTEXT_REQUEST_SCOPE_INDEX of the context
    life,       \* of the request scopes
    fetching,   \* the scopes that have a fetch under way
    turn,       \* what runs the script
    response,   \* response_ of the scope in the context: the Response it is from
    fault       \* the first use of a pointer that went wrong

vars == <<object, embedded, life, fetching, turn, response, fault>>

\* What runs the script: its load, the handler of a request, a timer or a fetch
\* of a request, or a timer set while loading ("top").
Turn(kind, r) == [kind |-> kind, req |-> r]
NoTurn == Turn("idle", None)
TurnType == [kind : {"idle", "load", "handler", "timer", "fetch", "top"},
             req : Request \cup {None}]

\* The request that has the context: there is at most one, until its scope ends.
Holder == IF \E r \in Request : life[r] = "live"
          THEN CHOOSE r \in Request : life[r] = "live" ELSE None

Use == {"respondWith", "response", "method", "addEventListener", "enqueue",
        "desiredSize", "setup", "scope", "Response"}
Fault(kind, use, x, t) ==
    [kind |-> kind, use |-> use, object |-> x, turn |-> t, holder |-> Holder]
FaultType ==
    [kind : {"none", "no_field", "unset", "wrong_class", "freed",
             "no_object", "scope_gone", "no_scope"},
     use : Use, object : ObjectType \cup {NoObject}, turn : TurnType,
     holder : Request \cup {None}]

\* V8JsContext::Create: the script is about to be loaded.
Init ==
    /\ object = [o \in Object |-> NoObject]
    /\ embedded = None
    /\ life = [r \in Request |-> "none"]
    /\ fetching = {}
    /\ turn = Turn("load", None)
    /\ response = NoObject
    /\ fault = Fault("none", "scope", NoObject, NoTurn)

InScript == turn.kind # "idle"

\* The turn of a scope that has not ended.
InOwnTurn ==
    /\ turn.kind \in {"handler", "timer", "fetch"}
    /\ life[turn.req] = "live"

-----------------------------------------------------------------------------
(* Pointers and scopes.                                                    *)

\* get_ptr, and what is wrong with using what it gives as an object of class.
Misuse(x, class) ==
    IF x.class = "Object" THEN "no_field"
    ELSE IF x.pointer = Unset THEN "unset"
    ELSE IF x.pointer.class # class THEN "wrong_class"
    ELSE IF x.pointer.heap # None /\ life[x.pointer.heap] = "dead" THEN "freed"
    ELSE "none"

\* The method use of x needs an object of class: a misuse is a fault.
Uses(use, x, class) ==
    fault' = IF Misuse(x, class) = "none" THEN fault
             ELSE Fault(Misuse(x, class), use, x, turn)

\* getHeap: that of the embedded scope, or that of the script.
Heap == embedded

\* The embedded scope, and its heap, are gone, but still in the context.
ScopeGone == embedded # None /\ life[embedded] = "dead"
UsesGoneScope == fault' = Fault("scope_gone", "scope", NoObject, turn)

-----------------------------------------------------------------------------
(* The objects.                                                            *)

Made(class, pointer, by) ==
    [class |-> class, pointer |-> pointer, by |-> by, born |-> Holder]
Allocated(class) == [class |-> class, heap |-> Heap]

\* The script keeps an object in a variable that is free.
Keeps(o, x) ==
    /\ object[o] = NoObject
    /\ object' = [object EXCEPT ![o] = x]

\* What is behind the object is allocated first.
KeepsAllocated(o, x) ==
    IF ScopeGone THEN UsesGoneScope /\ UNCHANGED object
    ELSE Keeps(o, x) /\ UNCHANGED fault

\* new Response: the constructor sets the field.
NewResponse(o) ==
    /\ InScript
    /\ KeepsAllocated(o, Made("Response", Allocated("FetchResponse"), "script"))
    /\ UNCHANGED <<embedded, life, fetching, turn, response>>

\* Response.call(x), without new: the constructor sets the field of whatever its
\* receiver is.
CallResponse(o) ==
    LET x == object[o]
    IN  /\ InScript /\ x # NoObject
        /\ IF ScopeGone THEN UsesGoneScope /\ UNCHANGED object
           ELSE IF x.class = "Object"
           THEN fault' = Fault("no_field", "Response", x, turn) /\ UNCHANGED object
           ELSE /\ object' = [object EXCEPT ![o] =
                      Made(IF x.class = "Response" THEN "Response" ELSE "Disguised",
                           Allocated("FetchResponse"), "script")]
                /\ UNCHANGED fault
        /\ UNCHANGED <<embedded, life, fetching, turn, response>>

EmptyClass == {"EventTarget", "FetchEvent", "Request",
               "ReadableStreamDefaultController", "Object"}

\* new of another class that is exposed on the global object, except
\* ReadableStream, leaves the field empty; or the script makes an object of none.
NewEmpty(o, class) ==
    /\ InScript
    /\ Keeps(o, Made(class, Unset, "script"))
    /\ UNCHANGED <<embedded, life, fetching, turn, response, fault>>

\* new ReadableStream(source) gives source.start a controller that the bindings
\* made.  The field of the stream itself stays unset.  While the script is
\* loaded there is no scope, and the script gets a TypeError.
NewStream(o, p) ==
    /\ InScript /\ embedded # None /\ o # p
    /\ IF ScopeGone THEN UsesGoneScope /\ UNCHANGED object
       ELSE /\ object[o] = NoObject /\ object[p] = NoObject
            /\ object' = [object EXCEPT
                  ![o] = Made("ReadableStream", Unset, "script"),
                  ![p] = Made("ReadableStreamDefaultController",
                              Allocated("ReadableStreamDefaultController"), "bindings")]
            /\ UNCHANGED fault
    /\ UNCHANGED <<embedded, life, fetching, turn, response>>

\* new ReadableStream(): only a single argument is checked to be an object,
\* and the source is set up from what is not there.
NewStreamOfNothing ==
    /\ InScript /\ embedded # None
    /\ fault' = Fault("no_object", "setup", NoObject, turn)
    /\ UNCHANGED <<object, embedded, life, fetching, turn, response>>

\* JsEventListener::call makes an event object for each listener.
ListenerGetsEvent(o) ==
    /\ turn.kind = "handler"
    /\ Keeps(o, Made("FetchEvent", [class |-> "Event", heap |-> turn.req], "bindings"))
    /\ UNCHANGED <<embedded, life, fetching, turn, response, fault>>

\* event.request makes a new object each time, in the heap of the scope.
RequestGetter(o) ==
    /\ InScript /\ embedded # None
    /\ KeepsAllocated(o, Made("Request", Allocated("FetchRequest"), "bindings"))
    /\ UNCHANGED <<embedded, life, fetching, turn, response>>

\* The script forgets an object; what is behind it stays in its heap.
Forget(o) ==
    /\ object[o] # NoObject
    /\ object' = [object EXCEPT ![o] = NoObject]
    /\ UNCHANGED <<embedded, life, fetching, turn, response, fault>>

\* Object.setPrototypeOf, Object.create, Symbol.hasInstance.
ChangePrototype(o) ==
    /\ InScript /\ object[o].class \in JsClass
    /\ object' = [object EXCEPT ![o].class = "Disguised", ![o].by = "script"]
    /\ UNCHANGED <<embedded, life, fetching, turn, response, fault>>

-----------------------------------------------------------------------------
(* The turns.                                                              *)

LoadEnds ==
    /\ turn.kind = "load"
    /\ turn' = NoTurn
    /\ UNCHANGED <<object, embedded, life, fetching, response, fault>>

\* Bug: the scope is not put into the embedder data.
EmbedNothing(r) == embedded

\* V8JsContext::handle_http_request replaces the scope of the request before.
Embed(r) == r

\* A request gets the context: no other has it.
HandleHttpRequest(r) ==
    /\ turn.kind = "idle"
    /\ life[r] = "none" /\ Holder = None
    /\ embedded' = Embed(r)
    /\ life' = [life EXCEPT ![r] = "live"]
    /\ turn' = Turn("handler", r)
    /\ response' = NoObject
    /\ UNCHANGED <<object, fetching, fault>>

\* A timer of a request calls the script: it ends with the heap of its scope.
TimerBegins(r) ==
    /\ turn.kind = "idle" /\ life[r] = "live"
    /\ turn' = Turn("timer", r)
    /\ UNCHANGED <<object, embedded, life, fetching, response, fault>>

\* A timer that was set while the script was loaded: its reqScope_ is null.
TopTimerBegins ==
    /\ turn.kind = "idle"
    /\ turn' = Turn("top", None)
    /\ UNCHANGED <<object, embedded, life, fetching, response, fault>>

\* V8FetchContext::fulfill_promise, also for a scope that is gone: the Response
\* is allocated in the scope that is in the context by now, and the script may
\* keep it.  The scope may have more fetches under way.
FulfillPromise(r) ==
    /\ turn.kind = "idle" /\ r \in fetching
    /\ fetching' \in {fetching, fetching \ {r}}
    /\ turn' = Turn("fetch", r)
    /\ IF ScopeGone
       THEN fault' = Fault("scope_gone", "scope", NoObject, turn') /\ UNCHANGED object
       ELSE /\ UNCHANGED fault
            /\ \/ UNCHANGED object
               \/ \E o \in Object :
                     Keeps(o, Made("Response", Allocated("FetchResponse"), "bindings"))
    /\ UNCHANGED <<embedded, life, response>>

\* The end of a turn.  handle_response uses the response after the handler,
\* unless there was an error; then the scope waits or is deleted.  Its fetches
\* go on, unless it is deleted right after the handler, before they are sent.
TurnEnds(failed) ==
    /\ InOwnTurn
    /\ IF turn.kind = "handler" /\ response # NoObject /\ ~failed
       THEN Uses("response", response, "FetchResponse") ELSE UNCHANGED fault
    /\ \/ UNCHANGED <<life, fetching>>
       \/ /\ life' = [life EXCEPT ![turn.req] = "dead"]
          /\ UNCHANGED fetching
             \/ (turn.kind = "handler" /\ fetching' = fetching \ {turn.req})
    /\ turn' = NoTurn
    /\ UNCHANGED <<object, embedded, response>>

\* handle_waitings at the end of the other turns, on a scope that is gone or on
\* none.
EndsWithoutScope ==
    /\ turn.kind = "top" \/ (turn.kind = "fetch" /\ life[turn.req] = "dead")
    /\ fault' = Fault(IF turn.kind = "top" THEN "no_scope" ELSE "scope_gone",
                      "scope", NoObject, turn)
    /\ UNCHANGED <<object, embedded, life, fetching, turn, response>>

-----------------------------------------------------------------------------
(* The functions and the methods, which any object may be the receiver of. *)

\* fetch(url): without a scope the script gets a TypeError.
GlobalFetch ==
    /\ InScript /\ embedded # None
    /\ IF ScopeGone THEN UsesGoneScope /\ UNCHANGED fetching
       ELSE fetching' = fetching \cup {embedded} /\ UNCHANGED fault
    /\ UNCHANGED <<object, embedded, life, turn, response>>

\* event.respondWith(x): the event is cancelled first.  An x that is no
\* Response, or a call without a scope, gives a TypeError.
RespondWith(e, o) ==
    LET event == object[e]
        x == object[o]
    IN  /\ InScript /\ event # NoObject
        /\ IF Misuse(event, "Event") # "none"
           THEN Uses("respondWith", event, "Event") /\ UNCHANGED response
           ELSE \E is \in IsInstanceOf(x, "Response") :
                  IF ~is \/ x = NoObject \/ embedded = None THEN UNCHANGED <<fault, response>>
                  ELSE IF Misuse(x, "FetchResponse") \in {"no_field", "unset"}
                  THEN Uses("response", x, "FetchResponse") /\ UNCHANGED response
                  ELSE IF ScopeGone THEN UsesGoneScope /\ UNCHANGED response
                  ELSE response' = x /\ UNCHANGED fault
        /\ UNCHANGED <<object, embedded, life, fetching, turn>>

\* request.method, controller.enqueue(x), and controller.desiredSize, which takes
\* the controller for a stream.
Needs == [method |-> "FetchRequest", enqueue |-> "ReadableStreamDefaultController",
          desiredSize |-> "ReadableStream"]

CallMethod(use, o) ==
    /\ InScript /\ object[o] # NoObject
    /\ Uses(use, object[o], Needs[use])
    /\ UNCHANGED <<object, embedded, life, fetching, turn, response>>

\* Bug: the class of the receiver is looked for in the other order.
HasOwnTargetFirst(isGlobal, isTarget) == isTarget

\* get_event_target: an object that is not the global one has the target in its
\* own field.
HasOwnTarget(isGlobal, isTarget) == ~isGlobal /\ isTarget

\* addEventListener: the target is looked for, then the listener is allocated,
\* then added.
AddEventListener(x) ==
    /\ InScript
    /\ \E isGlobal \in IsInstanceOf(x, "ServiceWorkerGlobalScope"),
          isTarget \in IsInstanceOf(x, "EventTarget") :
          /\ isGlobal \/ isTarget
          /\ IF ScopeGone THEN UsesGoneScope
             ELSE IF HasOwnTarget(isGlobal, isTarget)
             THEN Uses("addEventListener", x, "EventTarget") ELSE UNCHANGED fault
    /\ UNCHANGED <<object, embedded, life, fetching, turn, response>>

-----------------------------------------------------------------------------
Turns ==
    \/ LoadEnds \/ TopTimerBegins \/ EndsWithoutScope
    \/ \E r \in Request : HandleHttpRequest(r) \/ TimerBegins(r) \/ FulfillPromise(r)
    \/ \E failed \in BOOLEAN : TurnEnds(failed)

Makes ==
    \/ \E o \in Object :
          \/ NewResponse(o) \/ CallResponse(o) \/ ListenerGetsEvent(o)
          \/ RequestGetter(o) \/ Forget(o) \/ ChangePrototype(o)
    \/ \E o \in Object, class \in EmptyClass : NewEmpty(o, class)
    \/ \E o, p \in Object : NewStream(o, p)
    \/ NewStreamOfNothing

Calls ==
    \/ GlobalFetch
    \/ \E e, o \in Object : RespondWith(e, o)
    \/ \E o \in Object, use \in DOMAIN Needs : CallMethod(use, o)
    \/ \E o \in Object : object[o] # NoObject /\ AddEventListener(object[o])
    \/ \E x \in Globals : AddEventListener(x)

Next == fault.kind = "none" /\ (Turns \/ Makes \/ Calls)

Spec == Init /\ [][Next]_vars

-----------------------------------------------------------------------------
(* Properties.                                                             *)

TypeOK ==
    /\ object \in [Object -> ObjectType \cup {NoObject}]
    /\ embedded \in Request \cup {None}
    /\ life \in [Request -> {"none", "live", "dead"}]
    /\ fetching \subseteq Request
    /\ turn \in TurnType
    /\ response \in {x \in ObjectType : x.class = "Response" \/ Faked(x)} \cup {NoObject}
    /\ fault \in FaultType

\* What is behind an object is in the heap of the request that had the context
\* when its field was set, and of the class the methods of its template expect,
\* unless the script sets the field itself, whatever callback does it: the scope
\* in the context is never reset when a request ends, and other requests have
\* used the context before (v8rt::getHeap, IsolateData::NewInstance, set_ptr).
MadeInHeapOfHolder ==
    \A o \in Object : LET x == object[o] IN x.pointer # Unset =>
        /\ Faked(x) \/ x.pointer.class = Behind[x.class]
        /\ x.pointer.heap = x.born

\* The class a method is found on, for an object whose prototypes are its own.
Owner == [respondWith |-> "FetchEvent", method |-> "Request",
          enqueue |-> "ReadableStreamDefaultController",
          desiredSize |-> "ReadableStreamDefaultController"]

\* The script left the object alone, and uses it by its own methods.
Regular(use, x) == ~Faked(x) /\ (use \in DOMAIN Owner => x.class = Owner[use])

\* Whatever a script does and keeps, and whenever it calls what, the only uses
\* that fail are: of an object it disguised as one of the bindings, or called the
\* method of another class on; of one it made itself of a class with an empty
\* constructor; a controller asked for its desiredSize; an object kept past the
\* request that had the context when its field was set; a stream made without a
\* source; and, of the scope, those of a timer set while loading and of a fetch
\* that is answered after its scope has ended.  An object the bindings gave, a
\* Response, and all that was made while the script was loaded, can be used
\* within their time (get_ptr, IsInstanceOf, getRequestScope).
FaultsHaveACause ==
    LET x == fault.object
    IN  /\ fault.kind \in {"no_field", "unset", "wrong_class"} /\ Regular(fault.use, x) =>
              \/ fault.use = "desiredSize"
              \/ fault.kind = "unset" /\ x.by = "script" /\ x.class # "Response"
        /\ fault.kind = "freed" => x.born # None /\ x.born # fault.holder
        /\ fault.kind = "no_object" => fault.use = "setup"
        /\ fault.kind = "scope_gone" =>
              \/ fault.turn.kind = "top"
              \/ fault.turn.kind = "fetch" /\ life[fault.turn.req] = "dead"
        /\ fault.kind = "no_scope" => fault.turn.kind = "top"
=============================================================================
