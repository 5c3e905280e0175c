--------------------------- MODULE JsObjectsProofs ---------------------------
(***************************************************************************)
(* Proofs about JsObjects, for any number of requests and objects.         *)
(*                                                                         *)
(* A pointer fails only for a cause because it was put into the heap of    *)
(* the request that had the context (MadeInHeapOfHolder), and that needs   *)
(* the scope in the context to be the live one, if there is one, although  *)
(* nobody ever resets it (TurnIsEmbedded).  When there is none, the scope  *)
(* there is gone, and only two turns can run: a fetch of a scope that has  *)
(* ended and a timer set while loading.                                    *)
(***************************************************************************)
EXTENDS JsObjects, TLAPS

TurnIsEmbedded ==
    /\ turn.kind = "load" => embedded = None
    /\ turn.kind \in {"handler", "timer", "fetch"} => turn.req \in Request
    /\ turn.kind \in {"handler", "timer"} => life[turn.req] = "live"
    /\ turn.kind = "fetch" => life[turn.req] # "none"
    /\ \A r \in Request : life[r] = "live" => embedded = r
    /\ embedded # None => life[embedded] # "none"
    /\ \A r \in fetching : life[r] # "none"

\* What is true of an object the script has: the field is empty only if the
\* script made it and the constructor leaves it so.
Sound(x) ==
    /\ x.class \in JsClass \cup {"Object", "Disguised"}
    /\ IF x.pointer = Unset THEN x.by = "script" /\ x.class # "Response"
       ELSE /\ x.class # "Object"
            /\ Faked(x) \/ x.pointer.class = Behind[x.class]
            /\ x.pointer.heap = x.born

ObjectsAreSound ==
    /\ \A o \in Object : object[o] # NoObject => Sound(object[o])
    /\ response # NoObject => Sound(response)

IInv == TypeOK /\ TurnIsEmbedded /\ ObjectsAreSound /\ FaultsHaveACause

\* An object of the script is no object of the type, unlike those it has.
LEMMA NoObjectFacts == NoObject \notin ObjectType /\ NoObject.pointer = Unset
BY DEF NoObject, ObjectType, JsClass, Unset

\* The request that has the context, if any, is one that lives.
LEMMA HolderLives ==
    /\ Holder \in Request \cup {None}
    /\ Holder # None => Holder \in Request /\ life[Holder] = "live"
    /\ Holder = None => \A r \in Request : life[r] # "live"
<1>1. CASE \E r \in Request : life[r] = "live"
    BY <1>1, NoneAssumption DEF Holder
<1>2. CASE ~ \E r \in Request : life[r] = "live"
    BY <1>2 DEF Holder
<1> QED BY <1>1, <1>2

\* The script is being loaded and has no object.
LEMMA InitIInv == Init => IInv
<1> SUFFICES ASSUME Init PROVE IInv
    OBVIOUS
<1>1. fault \in FaultType /\ FaultsHaveACause
    BY HolderLives DEF Init, NoTurn, Turn, TurnType, Fault, FaultType, Use, FaultsHaveACause
<1>2. TypeOK
    BY <1>1 DEF Init, TypeOK, Turn, TurnType
<1>3. TurnIsEmbedded /\ ObjectsAreSound
    BY DEF Init, TurnIsEmbedded, ObjectsAreSound, Turn
<1> QED BY <1>1, <1>2, <1>3 DEF IInv

\* What is allocated is in the heap of the request that has the context, unless
\* the scope that is embedded is gone.
LEMMA HeapIsHolders == ASSUME IInv, ~ScopeGone PROVE Heap = Holder
<1>1. CASE Holder = None
    BY <1>1, HolderLives DEF IInv, TypeOK, TurnIsEmbedded, ScopeGone, Heap
<1>2. CASE Holder # None
    BY <1>2, HolderLives DEF IInv, TurnIsEmbedded, Heap
<1> QED BY <1>1, <1>2

\* Only two turns can find the scope gone.
LEMMA GoneScopeHasACause ==
    ASSUME IInv, InScript, ScopeGone, UsesGoneScope, UNCHANGED life
    PROVE  fault' \in FaultType /\ FaultsHaveACause'
<1>1. turn.kind = "top" \/ (turn.kind = "fetch" /\ life[turn.req] = "dead")
    BY DEF IInv, TypeOK, TurnType, TurnIsEmbedded, InScript, ScopeGone
<1> QED BY <1>1, HolderLives
        DEF UsesGoneScope, Fault, FaultType, Use, FaultsHaveACause, IInv, TypeOK

\* A step that only gives the script an object, or changes one.
LEMMA KeepsKeepsIInv ==
    ASSUME IInv, NEW o \in Object, NEW x \in ObjectType, Sound(x),
           object' = [object EXCEPT ![o] = x],
           UNCHANGED <<embedded, life, fetching, turn, response, fault>>
    PROVE  IInv'
<1>1. TypeOK'
    BY DEF IInv, TypeOK
<1>2. TurnIsEmbedded' /\ FaultsHaveACause'
    BY DEF IInv, TurnIsEmbedded, FaultsHaveACause
<1>3. ObjectsAreSound'
    BY DEF IInv, TypeOK, ObjectsAreSound, Sound
<1> QED BY <1>1, <1>2, <1>3 DEF IInv

\* A call that may only fail.
LEMMA FaultKeepsIInv ==
    ASSUME IInv, fault' \in FaultType, FaultsHaveACause',
           UNCHANGED <<object, embedded, life, fetching, turn, response>>
    PROVE  IInv'
BY DEF IInv, TypeOK, TurnIsEmbedded, ObjectsAreSound, Sound

\* A call that uses a scope that is gone.
LEMMA GoneScopeKeepsIInv ==
    ASSUME IInv, InScript, ScopeGone, UsesGoneScope,
           UNCHANGED <<object, embedded, life, fetching, turn, response>>
    PROVE  IInv'
BY GoneScopeHasACause, FaultKeepsIInv

\* An object with a pointer of its class into the heap of the holder.
LEMMA MadeWithPointer ==
    ASSUME IInv, NEW class \in JsClass, NEW by \in {"script", "bindings"}
    PROVE  LET x == Made(class, [class |-> Behind[class], heap |-> Holder], by)
           IN  x \in ObjectType /\ Sound(x)
<1>1. Behind[class] \in CppClass /\ Behind[class] # "nothing"
    BY DEF CppClass, Behind, JsClass
<1>2. [class |-> Behind[class], heap |-> Holder] \in Pointer
    BY <1>1, HolderLives DEF Pointer
<1>3. [class |-> Behind[class], heap |-> Holder] # Unset
    BY <1>1 DEF Unset
<1>4. class # "Object"
    BY DEF JsClass
<1> QED BY <1>2, <1>3, <1>4, HolderLives DEF Made, ObjectType, Sound

\* The same, of a pointer that was allocated.
LEMMA MadeAllocated ==
    ASSUME IInv, ~ScopeGone, NEW class \in JsClass, NEW by \in {"script", "bindings"}
    PROVE  LET x == Made(class, Allocated(Behind[class]), by)
           IN  x \in ObjectType /\ Sound(x)
BY HeapIsHolders, MadeWithPointer DEF Allocated

\* An object with an empty field.
LEMMA MadeEmpty ==
    ASSUME IInv, NEW class \in JsClass \cup {"Object"}, class # "Response"
    PROVE  LET x == Made(class, Unset, "script") IN x \in ObjectType /\ Sound(x)
BY HolderLives DEF Made, ObjectType, Sound, Pointer

\* An object that is allocated, or a fault.
LEMMA KeepsAllocatedKeepsIInv ==
    ASSUME IInv, InScript, NEW o \in Object, NEW class \in JsClass,
           NEW by \in {"script", "bindings"},
           KeepsAllocated(o, Made(class, Allocated(Behind[class]), by)),
           UNCHANGED <<embedded, life, fetching, turn, response>>
    PROVE  IInv'
<1>1. CASE ScopeGone
    BY <1>1, GoneScopeKeepsIInv DEF KeepsAllocated
<1>2. CASE ~ScopeGone
  <2> DEFINE x == Made(class, Allocated(Behind[class]), by)
  <2>1. object' = [object EXCEPT ![o] = x] /\ UNCHANGED fault
      BY <1>2 DEF KeepsAllocated, Keeps
  <2>2. x \in ObjectType /\ Sound(x)
      BY <1>2, MadeAllocated
  <2> HIDE DEF x
  <2> QED BY <2>1, <2>2, KeepsKeepsIInv
<1> QED BY <1>1, <1>2

\* The names of the classes behind those of the bindings.
LEMMA Classes ==
    /\ {"EventTarget", "FetchEvent", "Request", "Response", "ReadableStream",
        "ReadableStreamDefaultController"} = JsClass
    /\ Behind["EventTarget"] = "EventTarget"
    /\ Behind["FetchEvent"] = "Event" /\ Behind["Request"] = "FetchRequest"
    /\ Behind["Response"] = "FetchResponse"
    /\ Behind["ReadableStreamDefaultController"] = "ReadableStreamDefaultController"
BY DEF JsClass, Behind

\* The objects that are made by a call of the script or by the bindings.
LEMMA MakesKeepIInv == ASSUME IInv, Makes PROVE IInv'
<1>1. ASSUME NEW o \in Object, NewResponse(o)
      PROVE  IInv'
    BY <1>1, Classes, KeepsAllocatedKeepsIInv DEF NewResponse
<1>2. ASSUME NEW o \in Object, NEW class \in EmptyClass, NewEmpty(o, class)
      PROVE  IInv'
  <2>1. class \in JsClass \cup {"Object"} /\ class # "Response"
    BY DEF EmptyClass, JsClass
  <2> QED BY <1>2, <2>1, MadeEmpty, KeepsKeepsIInv DEF NewEmpty, Keeps
<1>3. ASSUME NEW o \in Object, NEW p \in Object, NewStream(o, p)
      PROVE  IInv'
  <2>1. CASE ScopeGone
    BY <1>3, <2>1, GoneScopeKeepsIInv DEF NewStream
  <2>2. CASE ~ScopeGone
    <3> DEFINE x == Made("ReadableStream", Unset, "script")
               y == Made("ReadableStreamDefaultController",
                         Allocated("ReadableStreamDefaultController"), "bindings")
    <3>1. object' = [object EXCEPT ![o] = x, ![p] = y]
          /\ UNCHANGED <<embedded, life, fetching, turn, response, fault>>
      BY <1>3, <2>2 DEF NewStream
    <3>2. x \in ObjectType /\ Sound(x)
      BY Classes, MadeEmpty
    <3>3. y \in ObjectType /\ Sound(y)
      BY <2>2, Classes, MadeAllocated
    <3> HIDE DEF x, y
    <3>4. TypeOK'
      BY <3>1, <3>2, <3>3 DEF IInv, TypeOK
    <3>5. TurnIsEmbedded' /\ FaultsHaveACause'
      BY <3>1 DEF IInv, TurnIsEmbedded, FaultsHaveACause
    <3>6. ObjectsAreSound'
      BY <3>1, <3>2, <3>3 DEF IInv, TypeOK, ObjectsAreSound, Sound
    <3> QED BY <3>4, <3>5, <3>6 DEF IInv
  <2> QED BY <2>1, <2>2
<1>4. CASE NewStreamOfNothing
  <2>1. fault' = Fault("no_object", "setup", NoObject, turn)
        /\ UNCHANGED <<object, embedded, life, fetching, turn, response>>
    BY <1>4 DEF NewStreamOfNothing
  <2>2. fault' \in FaultType /\ FaultsHaveACause'
    BY <2>1, HolderLives DEF IInv, TypeOK, Fault, FaultType, Use, FaultsHaveACause
  <2> QED BY <2>1, <2>2, FaultKeepsIInv
<1>5. ASSUME NEW o \in Object, ListenerGetsEvent(o)
      PROVE  IInv'
  <2>1. Holder = turn.req
    BY <1>5, HolderLives DEF ListenerGetsEvent, IInv, TurnIsEmbedded
  <2> DEFINE x == Made("FetchEvent", [class |-> Behind["FetchEvent"], heap |-> Holder],
                       "bindings")
  <2>2. object' = [object EXCEPT ![o] = x]
        /\ UNCHANGED <<embedded, life, fetching, turn, response, fault>>
    BY <1>5, <2>1, Classes DEF ListenerGetsEvent, Keeps
  <2>3. x \in ObjectType /\ Sound(x)
    BY Classes, MadeWithPointer
  <2> HIDE DEF x
  <2> QED BY <2>2, <2>3, KeepsKeepsIInv
<1>6. ASSUME NEW o \in Object, RequestGetter(o)
      PROVE  IInv'
    BY <1>6, Classes, KeepsAllocatedKeepsIInv DEF RequestGetter
<1>7. ASSUME NEW o \in Object, Forget(o)
      PROVE  IInv'
  <2>1. object' = [object EXCEPT ![o] = NoObject]
        /\ UNCHANGED <<embedded, life, fetching, turn, response, fault>>
    BY <1>7 DEF Forget
  <2> QED BY <2>1 DEF IInv, TypeOK, TurnIsEmbedded, ObjectsAreSound, Sound,
                      FaultsHaveACause
<1>8. ASSUME NEW o \in Object, ChangePrototype(o)
      PROVE  IInv'
  <2> DEFINE x == [object[o] EXCEPT !.class = "Disguised", !.by = "script"]
  <2>1. object' = [object EXCEPT ![o] = x]
        /\ UNCHANGED <<embedded, life, fetching, turn, response, fault>>
    BY <1>8 DEF ChangePrototype
  <2>2. object[o] \in ObjectType /\ Sound(object[o])
    BY <1>8 DEF ChangePrototype, IInv, TypeOK, ObjectsAreSound, NoObject, JsClass
  <2>3. x \in ObjectType /\ Sound(x)
    BY <2>2 DEF ObjectType, Sound, Faked
  <2> HIDE DEF x
  <2> QED BY <2>1, <2>3, KeepsKeepsIInv
<1>9. ASSUME NEW o \in Object, CallResponse(o)
      PROVE  IInv'
  <2> DEFINE x == object[o]
             y == Made(IF x.class = "Response" THEN "Response" ELSE "Disguised",
                       Allocated("FetchResponse"), "script")
  <2>1. /\ InScript /\ x # NoObject
        /\ UNCHANGED <<embedded, life, fetching, turn, response>>
    BY <1>9 DEF CallResponse
  <2>2. x \in ObjectType /\ Sound(x)
    BY <2>1 DEF IInv, TypeOK, ObjectsAreSound
  <2>3. CASE ScopeGone
    BY <1>9, <2>1, <2>3, GoneScopeKeepsIInv DEF CallResponse
  <2>4. CASE ~ScopeGone /\ x.class = "Object"
    <3>1. fault' = Fault("no_field", "Response", x, turn) /\ UNCHANGED object
      BY <1>9, <2>4 DEF CallResponse
    <3>2. fault' \in FaultType
      BY <2>2, <3>1, HolderLives DEF IInv, TypeOK, Fault, FaultType, Use
    <3>3. FaultsHaveACause'
      BY <2>4, <3>1 DEF Fault, FaultsHaveACause, Regular, Faked
    <3> QED BY <2>1, <3>1, <3>2, <3>3, FaultKeepsIInv
  <2>5. CASE ~ScopeGone /\ x.class # "Object"
    <3>1. object' = [object EXCEPT ![o] = y] /\ UNCHANGED fault
      BY <1>9, <2>5 DEF CallResponse, IInv, TypeOK
    <3>2. Allocated("FetchResponse") = [class |-> "FetchResponse", heap |-> Holder]
      BY <2>5, HeapIsHolders DEF Allocated
    <3>3. Allocated("FetchResponse") \in Pointer /\ Allocated("FetchResponse") # Unset
      BY <3>2, Classes, HolderLives DEF Pointer, CppClass, Unset
    <3>4. y \in ObjectType
      BY <3>3, HolderLives, Classes DEF ObjectType, Made
    <3>5. Sound(y)
      BY <3>2, <3>3, Classes DEF Sound, Made, Faked
    <3> HIDE DEF y
    <3> QED BY <2>1, <3>1, <3>4, <3>5, KeepsKeepsIInv
  <2> QED BY <2>3, <2>4, <2>5
<1> QED BY <1>1, <1>2, <1>3, <1>4, <1>5, <1>6, <1>7, <1>8, <1>9 DEF Makes

\* What a use of an object may need, for it to fail only for a cause: the class
\* of the object, when the script left it alone.
Suits(use, x, class) ==
    /\ Sound(x) \/ (Faked(x) /\ x.pointer = Unset)
    /\ Regular(use, x) =>
          /\ x.class \in JsClass
          /\ use = "desiredSize" \/ class = Behind[x.class]

\* A use of a sound object by its own method fails only for a cause.
LEMMA UsesHaveACause ==
    ASSUME IInv, fault.kind = "none", NEW x \in ObjectType, NEW class, NEW use \in Use,
           Suits(use, x, class), Uses(use, x, class)
    PROVE  fault' \in FaultType /\ FaultsHaveACause'
<1> DEFINE kind == Misuse(x, class)
<1>1. CASE kind = "none"
    BY <1>1 DEF Uses, IInv, TypeOK, FaultsHaveACause
<1>2. CASE kind # "none"
  <2>1. fault' = [kind |-> kind, use |-> use, object |-> x, turn |-> turn, holder |-> Holder]
    BY <1>2 DEF Uses, Fault
  <2>2. kind \in {"no_field", "unset", "wrong_class", "freed"}
    BY <1>2 DEF Misuse
  <2>3. Regular(use, x) => x.class # "Object" /\ Sound(x)
    BY DEF Suits, JsClass, Regular, Faked
  <2>4. /\ kind = "no_field" => ~Regular(use, x)
        /\ kind = "unset" /\ Regular(use, x) => x.by = "script" /\ x.class # "Response"
    BY <2>3 DEF Misuse, Sound
  <2>5. kind = "wrong_class" /\ Regular(use, x) => use = "desiredSize"
    BY <2>3 DEF Misuse, Sound, Suits, Regular
  <2>6. kind = "freed" => x.born # None /\ x.born # Holder
    <3>1. kind = "freed" => /\ x.pointer # Unset /\ x.pointer.heap # None
                            /\ life[x.pointer.heap] = "dead"
      BY DEF Misuse
    <3>2. kind = "freed" => x.pointer.heap = x.born
      BY <3>1 DEF Sound, Suits
    <3> QED BY <3>1, <3>2, HolderLives
  <2> HIDE DEF kind
  <2>7. fault' \in FaultType
    BY <2>1, <2>2, HolderLives DEF FaultType, IInv, TypeOK
  <2>8. FaultsHaveACause'
    BY <2>1, <2>2, <2>4, <2>5, <2>6 DEF FaultsHaveACause, Regular, Owner
  <2> QED BY <2>7, <2>8
<1> QED BY <1>1, <1>2

\* The functions and methods keep it: they use pointers and set none.
LEMMA CallsKeepIInv == ASSUME IInv, fault.kind = "none", Calls PROVE IInv'
<1>1. ASSUME NEW o \in Object, object[o] # NoObject
      PROVE  object[o] \in ObjectType /\ Sound(object[o])
    BY <1>1 DEF IInv, TypeOK, ObjectsAreSound
<1>2. UNCHANGED fault => fault' \in FaultType /\ FaultsHaveACause'
    BY DEF IInv, TypeOK, FaultsHaveACause
<1>3. CASE GlobalFetch
  <2>1. CASE ScopeGone
    BY <1>3, <2>1, GoneScopeKeepsIInv DEF GlobalFetch
  <2>2. CASE ~ScopeGone
    <3>1. /\ embedded \in Request /\ life[embedded] # "none"
          /\ fetching' = fetching \cup {embedded}
          /\ UNCHANGED <<object, embedded, life, turn, response, fault>>
      BY <1>3, <2>2 DEF GlobalFetch, IInv, TypeOK, TurnIsEmbedded
    <3>2. TypeOK' /\ TurnIsEmbedded'
      BY <3>1 DEF IInv, TypeOK, TurnIsEmbedded
    <3> QED BY <1>2, <3>1, <3>2 DEF IInv, ObjectsAreSound, Sound
  <2> QED BY <2>1, <2>2
<1>4. ASSUME NEW e \in Object, NEW o \in Object, RespondWith(e, o)
      PROVE  IInv'
  <2>1. /\ InScript /\ object[e] # NoObject
        /\ UNCHANGED <<object, embedded, life, fetching, turn>>
    BY <1>4 DEF RespondWith
  <2>2. CASE Misuse(object[e], "Event") # "none"
    <3>1. Uses("respondWith", object[e], "Event") /\ UNCHANGED response
      BY <1>4, <2>2 DEF RespondWith
    <3>2. Suits("respondWith", object[e], "Event") /\ "respondWith" \in Use
      BY <1>1, <2>1, Classes DEF Suits, Regular, Owner, Use
    <3> QED BY <1>1, <2>1, <3>1, <3>2, UsesHaveACause, FaultKeepsIInv
  <2>3. CASE Misuse(object[e], "Event") = "none"
    <3> DEFINE x == object[o]
    <3>1. PICK is \in IsInstanceOf(x, "Response") :
             IF ~is \/ x = NoObject \/ embedded = None THEN UNCHANGED <<fault, response>>
             ELSE IF Misuse(x, "FetchResponse") \in {"no_field", "unset"}
             THEN Uses("response", x, "FetchResponse") /\ UNCHANGED response
             ELSE IF ScopeGone THEN UsesGoneScope /\ UNCHANGED response
             ELSE response' = x /\ UNCHANGED fault
      BY <1>4, <2>3 DEF RespondWith
    <3>2. CASE ~is \/ x = NoObject \/ embedded = None
      BY <1>2, <2>1, <3>1, <3>2, FaultKeepsIInv
    <3>3. CASE is /\ x # NoObject
      <4>1. x \in ObjectType /\ Sound(x) /\ (x.class = "Response" \/ Faked(x))
        BY <1>1, <3>1, <3>3 DEF IsInstanceOf, Inherits
      <4>2. Suits("response", x, "FetchResponse") /\ "response" \in Use
        BY <4>1, Classes DEF Suits, Regular, Use
      <4>3. CASE Uses("response", x, "FetchResponse") /\ UNCHANGED response
        BY <2>1, <4>1, <4>2, <4>3, UsesHaveACause, FaultKeepsIInv
      <4>4. CASE ScopeGone /\ UsesGoneScope /\ UNCHANGED response
        BY <2>1, <4>4, GoneScopeKeepsIInv
      <4>5. CASE response' = x /\ UNCHANGED fault
        <5>1. TypeOK' /\ ObjectsAreSound'
          BY <1>2, <2>1, <4>1, <4>5 DEF IInv, TypeOK, ObjectsAreSound, Sound
        <5> QED BY <1>2, <2>1, <4>5, <5>1 DEF IInv, TurnIsEmbedded
      <4>6. CASE UNCHANGED <<fault, response>>
        BY <1>2, <2>1, <4>6, FaultKeepsIInv
      <4> QED BY <3>1, <4>3, <4>4, <4>5, <4>6
    <3> QED BY <3>2, <3>3
  <2> QED BY <2>2, <2>3
<1>5. ASSUME NEW o \in Object, NEW use \in DOMAIN Needs, CallMethod(use, o)
      PROVE  IInv'
  <2>1. /\ object[o] # NoObject /\ Uses(use, object[o], Needs[use])
        /\ UNCHANGED <<object, embedded, life, fetching, turn, response>>
    BY <1>5 DEF CallMethod
  <2>2. use \in Use /\ use \in DOMAIN Owner
    BY DEF Needs, Use, Owner
  <2>3. Regular(use, object[o]) =>
           /\ object[o].class \in JsClass
           /\ use = "desiredSize" \/ Needs[use] = Behind[object[o].class]
    BY <2>2, Classes DEF Regular, Owner, Needs
  <2> HIDE DEF Needs
  <2>4. Suits(use, object[o], Needs[use])
    BY <1>1, <2>1, <2>3 DEF Suits
  <2> QED BY <1>1, <2>1, <2>2, <2>4, UsesHaveACause, FaultKeepsIInv
<1>6. ASSUME NEW x \in ObjectType, AddEventListener(x),
             Sound(x) \/ x \in Globals
      PROVE  IInv'
  <2>1. PICK isGlobal \in IsInstanceOf(x, "ServiceWorkerGlobalScope"),
             isTarget \in IsInstanceOf(x, "EventTarget") :
           /\ isGlobal \/ isTarget
           /\ IF ScopeGone THEN UsesGoneScope
              ELSE IF HasOwnTarget(isGlobal, isTarget)
              THEN Uses("addEventListener", x, "EventTarget") ELSE UNCHANGED fault
    BY <1>6 DEF AddEventListener
  <2>2. /\ InScript /\ UNCHANGED <<object, embedded, life, fetching, turn, response>>
    BY <1>6 DEF AddEventListener
  <2>3. CASE ScopeGone
    BY <2>1, <2>2, <2>3, GoneScopeKeepsIInv
  <2>4. CASE UNCHANGED fault
    BY <1>2, <2>2, <2>4, FaultKeepsIInv
  <2>5. CASE HasOwnTarget(isGlobal, isTarget) /\ Uses("addEventListener", x, "EventTarget")
    <3>1. Faked(x) \/ x.class = "EventTarget"
      BY <2>1, <2>5 DEF HasOwnTarget, IsInstanceOf, Inherits
    <3>2. Sound(x) \/ (Faked(x) /\ x.pointer = Unset)
      BY <1>6, <3>1 DEF Globals, Faked
    <3>3. Suits("addEventListener", x, "EventTarget") /\ "addEventListener" \in Use
      BY <3>1, <3>2, Classes DEF Suits, Regular, Use
    <3> QED BY <2>2, <2>5, <3>3, UsesHaveACause, FaultKeepsIInv
  <2> QED BY <2>1, <2>3, <2>4, <2>5
<1>7. Globals \subseteq ObjectType
    BY DEF Globals, ObjectType, Pointer
<1> QED BY <1>1, <1>3, <1>4, <1>5, <1>6, <1>7 DEF Calls

\* The turns: a request replaces the scope in the context only when no other
\* lives there.
LEMMA TurnsKeepIInv == ASSUME IInv, fault.kind = "none", Turns PROVE IInv'
<1>1. ASSUME UNCHANGED <<object, embedded, life, fetching, response, fault>>,
             TypeOK', TurnIsEmbedded'
      PROVE  IInv'
    BY <1>1 DEF IInv, ObjectsAreSound, Sound, FaultsHaveACause
<1>2. CASE LoadEnds
  <2>1. TypeOK' /\ TurnIsEmbedded'
    BY <1>2 DEF LoadEnds, IInv, TypeOK, TurnType, NoTurn, Turn, TurnIsEmbedded
  <2> QED BY <1>1, <1>2, <2>1 DEF LoadEnds
<1>3. CASE TopTimerBegins
  <2>1. TypeOK' /\ TurnIsEmbedded'
    BY <1>3 DEF TopTimerBegins, IInv, TypeOK, TurnType, Turn, TurnIsEmbedded
  <2> QED BY <1>1, <1>3, <2>1 DEF TopTimerBegins
<1>4. ASSUME NEW r \in Request, TimerBegins(r)
      PROVE  IInv'
  <2>1. TypeOK' /\ TurnIsEmbedded'
    BY <1>4 DEF TimerBegins, IInv, TypeOK, TurnType, Turn, TurnIsEmbedded
  <2> QED BY <1>1, <1>4, <2>1 DEF TimerBegins
<1>5. ASSUME NEW r \in Request, HandleHttpRequest(r)
      PROVE  IInv'
  <2>1. /\ \A q \in Request : life[q] # "live"
        /\ embedded' = r /\ life' = [life EXCEPT ![r] = "live"]
        /\ turn' = [kind |-> "handler", req |-> r]
        /\ response' = NoObject /\ UNCHANGED <<object, fetching, fault>>
    BY <1>5, HolderLives DEF HandleHttpRequest, Embed, Turn
  <2>2. TypeOK' /\ TurnIsEmbedded'
    BY <2>1 DEF IInv, TypeOK, TurnType, TurnIsEmbedded
  <2> QED BY <2>1, <2>2 DEF IInv, ObjectsAreSound, Sound, FaultsHaveACause
<1>6. ASSUME NEW r \in Request, FulfillPromise(r)
      PROVE  IInv'
  <2>1. /\ r \in fetching /\ fetching' \in {fetching, fetching \ {r}}
        /\ turn' = [kind |-> "fetch", req |-> r]
        /\ UNCHANGED <<embedded, life, response>>
    BY <1>6 DEF FulfillPromise, Turn
  <2>2. turn' \in TurnType /\ TurnIsEmbedded'
    BY <2>1 DEF IInv, TypeOK, TurnType, TurnIsEmbedded
  <2>3. CASE ScopeGone
    <3>1. fault' = Fault("scope_gone", "scope", NoObject, turn') /\ UNCHANGED object
      BY <1>6, <2>3 DEF FulfillPromise
    <3>2. life[r] = "dead"
      BY <2>1, <2>3 DEF IInv, TypeOK, TurnIsEmbedded, ScopeGone
    <3>3. fault' \in FaultType
      BY <2>2, <3>1, HolderLives DEF Fault, FaultType, Use
    <3>4. FaultsHaveACause'
      BY <2>1, <3>1, <3>2 DEF Fault, FaultsHaveACause
    <3> QED BY <2>1, <2>2, <3>1, <3>3, <3>4 DEF IInv, TypeOK, ObjectsAreSound, Sound
  <2>4. CASE ~ScopeGone
    <3> DEFINE x == Made("Response", Allocated("FetchResponse"), "bindings")
    <3>1. UNCHANGED fault /\ (UNCHANGED object \/ \E o \in Object : Keeps(o, x))
      BY <1>6, <2>4 DEF FulfillPromise
    <3>2. x \in ObjectType /\ Sound(x)
      BY <2>4, Classes, MadeAllocated
    <3> HIDE DEF x
    <3>3. TypeOK' /\ ObjectsAreSound'
      BY <2>1, <2>2, <3>1, <3>2 DEF IInv, TypeOK, ObjectsAreSound, Sound, Keeps
    <3>4. FaultsHaveACause'
      BY <2>1, <3>1 DEF IInv, FaultsHaveACause
    <3> QED BY <2>2, <3>3, <3>4 DEF IInv
  <2> QED BY <2>3, <2>4
<1>7. ASSUME NEW failed \in BOOLEAN, TurnEnds(failed)
      PROVE  IInv'
  <2>1. /\ turn.req \in Request /\ turn' = NoTurn
        /\ UNCHANGED <<object, embedded, response>>
        /\ fetching' \in SUBSET fetching
        /\ life' = life \/ life' = [life EXCEPT ![turn.req] = "dead"]
    BY <1>7 DEF TurnEnds, InOwnTurn, IInv, TypeOK, TurnIsEmbedded
  <2>2. \/ UNCHANGED fault
        \/ response # NoObject /\ Uses("response", response, "FetchResponse")
    BY <1>7 DEF TurnEnds
  <2>3. fault' \in FaultType /\ FaultsHaveACause'
    <3>1. CASE UNCHANGED fault
      BY <3>1 DEF IInv, TypeOK, FaultsHaveACause
    <3>2. CASE response # NoObject /\ Uses("response", response, "FetchResponse")
      <4>1. /\ response \in ObjectType /\ Sound(response)
            /\ response.class = "Response" \/ Faked(response)
        BY <3>2 DEF IInv, TypeOK, ObjectsAreSound
      <4>2. Suits("response", response, "FetchResponse") /\ "response" \in Use
        BY <4>1, Classes DEF Suits, Regular, Use
      <4> QED BY <3>2, <4>1, <4>2, UsesHaveACause
    <3> QED BY <2>2, <3>1, <3>2
  <2>4. TypeOK'
    BY <2>1, <2>3 DEF IInv, TypeOK, TurnType, NoTurn, Turn
  <2>5. TurnIsEmbedded'
    BY <2>1 DEF IInv, TypeOK, TurnIsEmbedded, NoTurn, Turn
  <2> QED BY <2>1, <2>3, <2>4, <2>5 DEF IInv, ObjectsAreSound, Sound
<1>8. CASE EndsWithoutScope
  <2>1. fault' \in FaultType /\ FaultsHaveACause'
    BY <1>8, HolderLives
       DEF EndsWithoutScope, IInv, TypeOK, Fault, FaultType, Use, FaultsHaveACause
  <2> QED BY <1>8, <2>1, FaultKeepsIInv DEF EndsWithoutScope
<1> QED BY <1>2, <1>3, <1>4, <1>5, <1>6, <1>7, <1>8 DEF Turns

\* Every step keeps the invariant.
LEMMA NextKeepsIInv == IInv /\ [Next]_vars => IInv'
<1> SUFFICES ASSUME IInv, [Next]_vars PROVE IInv'
    OBVIOUS
<1>1. CASE UNCHANGED vars
    BY <1>1 DEF vars, IInv, TypeOK, TurnIsEmbedded, ObjectsAreSound, Sound,
                FaultsHaveACause
<1> QED BY <1>1, TurnsKeepIInv, MakesKeepIInv, CallsKeepIInv DEF Next

\* The strengthened invariant holds for every script.
THEOREM Invariance == Spec => []IInv
BY InitIInv, NextKeepsIInv, PTL DEF Spec

\* What is behind an object is in the heap of the request that had the context
\* when it was made, whatever callback made it, over any number of requests
\* (v8rt::getHeap).
THEOREM ObjectsLiveInHeapOfHolder == Spec => []MadeInHeapOfHolder
<1>1. IInv => MadeInHeapOfHolder
    BY NoObjectFacts DEF IInv, ObjectsAreSound, MadeInHeapOfHolder, Sound
<1> QED BY Invariance, <1>1, PTL

\* Every use of a pointer or of the scope that fails is one of those listed; in
\* particular what the bindings give a script is usable, by its own methods, for
\* as long as its request lasts (get_ptr, set_ptr, getRequestScope).
THEOREM MisusesHaveACause == Spec => []FaultsHaveACause
<1>1. IInv => FaultsHaveACause
    BY DEF IInv
<1> QED BY Invariance, <1>1, PTL

\* The variables keep their types.
THEOREM TypeCorrect == Spec => []TypeOK
<1>1. IInv => TypeOK
    BY DEF IInv
<1> QED BY Invariance, <1>1, PTL
=============================================================================
