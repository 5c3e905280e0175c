------------------------- MODULE EventTargetProofs --------------------------
(***************************************************************************)
(* Proofs of the invariants of EventTarget, of the fixed target, and that  *)
(* nothing goes wrong for scripts that respond in the first listener.      *)
(*                                                                         *)
(* The invariant is strengthened by what ContextLease keeps of the pool: a *)
(* context in the queue is held by nobody, so that the scope found in the  *)
(* embedder data of a held context is the one that holds it; and a scope   *)
(* that lives and is in a context, or has a fetch there, has that context. *)
(***************************************************************************)
EXTENDS EventTarget, SequenceTheorems, TLAPS

ContextsAreLentOnce ==
    /\ \A r \in Request :
          IF life[r] = "live" THEN held[r] \in made /\ embedded[held[r]] = r
                              ELSE held[r] = None
    /\ \A i \in DOMAIN idle :
          /\ idle[i] \in made \ bad
          /\ \A r \in Request : held[r] # idle[i]
    /\ \A i, j \in DOMAIN idle : idle[i] = idle[j] => i = j

\* A scope in the embedder data was lent, and still has the context if it lives.
EmbeddedWereLent ==
    \A c \in Context : embedded[c] # None =>
        /\ life[embedded[c]] # "none"
        /\ life[embedded[c]] = "live" => held[embedded[c]] = c

\* The same of a fetch under way, which was made in a context with a scope.
FetchesOfRequests ==
    \A f \in fetching :
        /\ embedded[f[2]] # None
        /\ life[f[1]] # "none"
        /\ life[f[1]] = "live" => held[f[1]] = f[2]

\* A callback that runs for a request is one of a live request, on its context,
\* unless it is a fetch.
TurnsOfRequests ==
    turn.kind \in {"dispatch", "listener", "respond", "task", "fetch"} =>
        /\ turn.req \in Request
        /\ turn.kind # "fetch" => life[turn.req] = "live"

IInv ==
    /\ TypeOK
    /\ ContextsAreLentOnce
    /\ EmbeddedWereLent
    /\ FetchesOfRequests
    /\ TurnsOfRequests
    /\ AllocatesInLiveHeap
    /\ LockedDuringDispatch
    /\ FirstListenerIsTopLevel

\* What a script leaves in its target while it is loaded.
LEMMA TopLevelItemsType ==
    ASSUME NEW items \in TopLevelItems
    PROVE  items \in Seq(Item) /\ \A i \in DOMAIN items : items[i].heap = None
<1>1. PICK n \in 0 .. MaxListeners : items \in [1 .. n -> [type : Type, heap : {None}]]
    BY DEF TopLevelItems
<1>2. items \in [1 .. n -> Item] /\ n \in Nat
    BY <1>1 DEF Item
<1>3. items \in Seq(Item)
    BY <1>2, IsASeq
<1> QED BY <1>1, <1>3

\* A context that was made is idle, and no request runs.
LEMMA InitIInv == Init => IInv
<1> SUFFICES ASSUME Init PROVE IInv
    OBVIOUS
<1> USE NoneAssumption, TypeAssumption, MaxAssumption
<1>1. PICK c \in Context :
          idle = <<c>> /\ held = [r \in Request |-> None] /\ made = {c} /\ bad = {}
    BY DEF Init, Lease!Init
<1>2. /\ listeners \in [Context -> TopLevelItems]
      /\ HasListener(listeners[c], "fetch")
    BY <1>1 DEF Init
<1>3. \A items \in TopLevelItems :
          items \in Seq(Item) /\ \A i \in DOMAIN items : items[i].heap = None
    BY TopLevelItemsType
<1>4. TypeOK
  <2>1. idle \in Seq(Context)
      BY <1>1
  <2>2. listeners \in [Context -> Seq(Item)]
      BY <1>2, <1>3
  <2>3. turn \in TurnType
      BY DEF Init, TurnType
  <2> QED BY <1>1, <2>1, <2>2, <2>3 DEF Init, TypeOK
<1>5. ContextsAreLentOnce
    BY <1>1 DEF Init, ContextsAreLentOnce
<1>6. /\ TurnsOfRequests /\ AllocatesInLiveHeap /\ LockedDuringDispatch
      /\ EmbeddedWereLent /\ FetchesOfRequests
    BY DEF Init, TurnsOfRequests, AllocatesInLiveHeap, LockedDuringDispatch, NoTurn, Turn,
           EmbeddedWereLent, FetchesOfRequests
<1>7. FirstListenerIsTopLevel
  <2>1. PICK i \in DOMAIN listeners[c] : listeners[c][i].type = "fetch"
      BY <1>2 DEF HasListener
  <2>2. \A j \in 1 .. i : j \in DOMAIN listeners[c]
    <3>1. listeners[c] \in Seq(Item)
        BY <1>2, <1>3
    <3> QED BY <2>1, <3>1
  <2> QED BY <1>1, <1>2, <1>3, <2>1, <2>2 DEF FirstListenerIsTopLevel
<1> QED BY <1>4, <1>5, <1>6, <1>7 DEF IInv

-----------------------------------------------------------------------------
(* A request begins.                                                       *)

\* A context nobody holds is lent and its target is locked.
LEMMA BeginKeepsIInv ==
    ASSUME IInv, TypeOK', FirstListenerIsTopLevel',
           NEW r \in Request, NEW c \in Context,
           turn.kind = "idle", life[r] = "none",
           held' = [held EXCEPT ![r] = c],
           BeginDispatch(c, r), UNCHANGED fetching,
           made \subseteq made', c \in made',
           \A q \in Request : held[q] # c,
           \A i \in DOMAIN idle' :
               /\ idle'[i] \in made' \ bad' /\ idle'[i] # c
               /\ \A q \in Request : held[q] # idle'[i],
           \A i, j \in DOMAIN idle' : idle'[i] = idle'[j] => i = j
    PROVE  IInv'
<1> USE NoneAssumption
<1>1. /\ embedded' = [embedded EXCEPT ![c] = r]
      /\ life' = [life EXCEPT ![r] = "live"]
      /\ locked' = [locked EXCEPT ![c] = TRUE]
      /\ turn' = Turn("dispatch", c, r)
    BY DEF BeginDispatch, Embed
<1>2. ContextsAreLentOnce'
  <2>1. ASSUME NEW q \in Request
        PROVE  IF life'[q] = "live"
               THEN held'[q] \in made' /\ embedded'[held'[q]] = q
               ELSE held'[q] = None
    <3>1. CASE q = r
        BY <1>1, <3>1 DEF IInv, TypeOK
    <3>2. CASE q # r
        BY <1>1, <3>2 DEF IInv, TypeOK, ContextsAreLentOnce
    <3> QED BY <3>1, <3>2
  <2>2. \A i \in DOMAIN idle' : \A q \in Request : held'[q] # idle'[i]
      BY DEF IInv, TypeOK
  <2> QED BY <2>1, <2>2 DEF ContextsAreLentOnce
<1>3. TurnsOfRequests' /\ AllocatesInLiveHeap'
    BY <1>1 DEF IInv, TypeOK, TurnsOfRequests, AllocatesInLiveHeap, Turn, HeapFor
<1>4. LockedDuringDispatch'
    BY <1>1 DEF IInv, TypeOK, LockedDuringDispatch, Turn
<1>5. EmbeddedWereLent'
    BY <1>1 DEF IInv, TypeOK, EmbeddedWereLent
<1>6. FetchesOfRequests'
    BY <1>1 DEF IInv, TypeOK, FetchesOfRequests
<1> QED BY <1>2, <1>3, <1>4, <1>5, <1>6 DEF IInv

\* A request on a context of the queue.
LEMMA LendKeepsIInv ==
    ASSUME IInv, NEW r \in Request, HandleHttpRequest(r)
    PROVE  IInv'
<1> DEFINE c == Head(idle)
<1>1. /\ turn.kind = "idle" /\ life[r] = "none" /\ idle # <<>>
      /\ held' = [held EXCEPT ![r] = c] /\ idle' = Tail(idle)
      /\ UNCHANGED <<made, bad, listeners, fetching, armed>>
      /\ BeginDispatch(c, r)
    BY DEF HandleHttpRequest, Lease!Lend
<1>2. /\ c \in Context /\ idle' \in Seq(Context)
      /\ 1 \in DOMAIN idle /\ c = idle[1]
      /\ \A i \in DOMAIN idle' : i + 1 \in DOMAIN idle /\ idle'[i] = idle[i + 1]
      /\ \A i \in DOMAIN idle' : i + 1 # 1
    BY <1>1, HeadTailProperties DEF IInv, TypeOK
<1>3. TypeOK'
    BY <1>1, <1>2, NoneAssumption
       DEF IInv, TypeOK, BeginDispatch, Embed, Turn, TurnType
<1>4. FirstListenerIsTopLevel'
    BY <1>1 DEF IInv, FirstListenerIsTopLevel
<1>5. c \in made /\ \A q \in Request : held[q] # c
    BY <1>2 DEF IInv, ContextsAreLentOnce
<1>6. \A i \in DOMAIN idle' :
          /\ idle'[i] \in made \ bad /\ idle'[i] # c
          /\ \A q \in Request : held[q] # idle'[i]
    BY <1>2 DEF IInv, ContextsAreLentOnce
<1>7. \A i, j \in DOMAIN idle' : idle'[i] = idle'[j] => i = j
  <2> SUFFICES ASSUME NEW i \in DOMAIN idle', NEW j \in DOMAIN idle',
                      idle'[i] = idle'[j]
               PROVE  i = j
      OBVIOUS
  <2>1. i + 1 = j + 1
      BY <1>2 DEF IInv, ContextsAreLentOnce
  <2>2. i \in Nat /\ j \in Nat
      BY <1>2
  <2> QED BY <2>1, <2>2
<1> QED BY <1>1, <1>2, <1>3, <1>4, <1>5, <1>6, <1>7, BeginKeepsIInv

\* A request on a context that is made for it.
LEMMA LendNewKeepsIInv ==
    ASSUME IInv, NEW r \in Request, NEW c \in Context, HandleOnNewContext(r, c)
    PROVE  IInv'
<1>1. /\ turn.kind = "idle" /\ life[r] = "none" /\ c \notin made
      /\ held' = [held EXCEPT ![r] = c] /\ made' = made \cup {c}
      /\ UNCHANGED <<idle, fetching>>
      /\ BeginDispatch(c, r)
    BY DEF HandleOnNewContext, Lease!LendNew
<1>2. PICK items \in TopLevelItems, threw \in BOOLEAN, arms \in BOOLEAN :
          /\ listeners' = [listeners EXCEPT ![c] = items]
          /\ bad' = IF LoadFails(items, threw) THEN bad \cup {c} ELSE bad
          /\ armed' = IF arms THEN armed \cup {c} ELSE armed
    BY DEF HandleOnNewContext
<1>3. items \in Seq(Item) /\ \A i \in DOMAIN items : items[i].heap = None
    BY TopLevelItemsType
<1>4. TypeOK'
    BY <1>1, <1>2, <1>3, NoneAssumption
       DEF IInv, TypeOK, BeginDispatch, Embed, Turn, TurnType
<1>5. FirstListenerIsTopLevel'
  <2> SUFFICES ASSUME NEW d \in made' \ bad'
               PROVE  \E i \in DOMAIN listeners'[d] :
                          /\ listeners'[d][i].type = "fetch"
                          /\ \A j \in 1 .. i : listeners'[d][j].heap = None
      BY DEF FirstListenerIsTopLevel
  <2>1. CASE d = c
    <3>1. listeners'[c] = items /\ ~LoadFails(items, threw)
        BY <1>2, <2>1 DEF IInv, TypeOK
    <3>2. PICK i \in DOMAIN items : items[i].type = "fetch"
        BY <3>1 DEF LoadFails, HasListener
    <3>3. \A j \in 1 .. i : j \in DOMAIN items
        BY <1>3, <3>2
    <3> QED BY <1>3, <2>1, <3>1, <3>2, <3>3
  <2>2. CASE d # c
      BY <1>1, <1>2, <2>2 DEF IInv, TypeOK, FirstListenerIsTopLevel
  <2> QED BY <2>1, <2>2
<1>6. \A q \in Request : held[q] # c
    BY <1>1, NoneAssumption DEF IInv, ContextsAreLentOnce
<1>7. \A i \in DOMAIN idle' :
          /\ idle'[i] \in made' \ bad' /\ idle'[i] # c
          /\ \A q \in Request : held[q] # idle'[i]
    BY <1>1, <1>2 DEF IInv, ContextsAreLentOnce
<1>8. \A i, j \in DOMAIN idle' : idle'[i] = idle'[j] => i = j
    BY <1>1 DEF IInv, ContextsAreLentOnce
<1> QED BY <1>1, <1>4, <1>5, <1>6, <1>7, <1>8, BeginKeepsIInv

-----------------------------------------------------------------------------
(* The steps that change the turn only, or the mutex with it.              *)

LEMMA DispatchKeepsIInv ==
    ASSUME IInv,
           CallListener \/ DispatchEnds \/ ListenerReturns \/ RespondWith
    PROVE  IInv'
<1> DEFINE c == turn.context
<1>1. /\ UNCHANGED <<idle, held, made, bad, listeners, embedded, life, fetching, armed>>
      /\ turn.kind \in {"dispatch", "listener"}
    BY DEF CallListener, DispatchEnds, ListenerReturns, RespondWith, leaseVars
<1>2. \/ /\ locked' = locked
         /\ turn' \in TurnType
         /\ turn'.kind \in {"dispatch", "listener"}
         /\ turn'.context = c /\ turn'.req = turn.req
      \/ /\ locked' = [locked EXCEPT ![c] = FALSE]
         /\ turn' = Turn("respond", c, turn.req)
  <2>1. turn \in TurnType /\ turn # NoTurn
      BY <1>1 DEF IInv, TypeOK, NoTurn, Turn
  <2>2. CASE CallListener
    <3>1. \A i \in DOMAIN listeners[c] : i \in Nat
        BY <2>1 DEF IInv, TypeOK, TurnType
    <3> QED BY <2>1, <2>2, <3>1 DEF CallListener, TurnType
  <2>3. CASE DispatchEnds
      BY <2>3 DEF DispatchEnds, Unlock
  <2>4. CASE ListenerReturns
      BY <2>1, <2>4 DEF ListenerReturns, Unlock, TurnType
  <2>5. CASE RespondWith
      BY <2>1, <2>5 DEF RespondWith, TurnType
  <2> QED BY <2>2, <2>3, <2>4, <2>5
<1>3. fault' \in {"none", "use_after_free", "deadlock", "null_scope"}
    BY DEF IInv, TypeOK, CallListener, DispatchEnds, ListenerReturns, RespondWith
<1>4. c \in Context /\ turn.req \in Request
    BY <1>1 DEF IInv, TypeOK, TurnType, TurnsOfRequests, NoTurn, Turn
<1>5. TypeOK'
  <2>1. Turn("respond", c, turn.req) \in TurnType
      BY <1>4 DEF TurnType, Turn
  <2>2. locked' \in [Context -> BOOLEAN]
      BY <1>2 DEF IInv, TypeOK
  <2> QED BY <1>1, <1>2, <1>3, <2>1, <2>2 DEF IInv, TypeOK
<1>6. /\ ContextsAreLentOnce' /\ FirstListenerIsTopLevel'
      /\ EmbeddedWereLent' /\ FetchesOfRequests'
    BY <1>1 DEF IInv, ContextsAreLentOnce, FirstListenerIsTopLevel,
                EmbeddedWereLent, FetchesOfRequests
<1>7. TurnsOfRequests' /\ AllocatesInLiveHeap'
    BY <1>1, <1>2, <1>4
       DEF IInv, TurnsOfRequests, AllocatesInLiveHeap, HeapFor, Turn
<1>8. LockedDuringDispatch'
    BY <1>1, <1>2, <1>4 DEF IInv, TypeOK, LockedDuringDispatch, Turn
<1> QED BY <1>5, <1>6, <1>7, <1>8 DEF IInv

\* What is true of a turn that begins in a context, or goes on in it.
TurnIsFine(t) ==
    /\ t.kind \notin {"dispatch", "listener"}
    /\ t.kind \in {"respond", "task", "fetch"} =>
          LET heap == embedded[t.context]
          IN  /\ t.req \in Request
              /\ heap \in Request /\ life[heap] = "live" /\ held[heap] = t.context
              /\ t.kind # "fetch" => life[t.req] = "live"
              /\ life[t.req] = "live" => heap = t.req

\* Callbacks begin, go on with a fault, and end.
LEMMA CallbackKeepsIInv ==
    ASSUME IInv,
           \/ \E r \in Request : TaskBegins(r)
           \/ \E r \in Request, c \in Context : FulfillPromise(r, c)
           \/ \E c \in Context : TopTimerBegins(c)
           \/ TurnEnds \/ FetchEndsLate \/ TopTimerEnds
    PROVE  IInv'
<1> USE NoneAssumption
<1>1. /\ UNCHANGED <<idle, held, made, bad, listeners, locked, embedded, life, armed>>
      /\ fetching' \subseteq fetching
      /\ turn.kind \notin {"dispatch", "listener"}
      /\ fault' \in {"none", "use_after_free", "deadlock", "null_scope"}
    BY DEF TaskBegins, FulfillPromise, TopTimerBegins, TurnEnds, FetchEndsLate,
           TopTimerEnds, InOwnTurn, leaseVars, IInv, TypeOK
<1>2. turn' \in TurnType /\ TurnIsFine(turn')
  <2>1. CASE \E r \in Request : TaskBegins(r)
      BY <2>1 DEF TaskBegins, HasTimers, IInv, TypeOK, ContextsAreLentOnce,
                  EmbeddedWereLent, Turn, TurnType, TurnIsFine
  <2>2. ASSUME NEW r \in Request, NEW c \in Context, FulfillPromise(r, c)
        PROVE  turn' \in TurnType /\ TurnIsFine(turn')
    <3>1. /\ <<r, c>> \in fetching /\ turn.kind = "idle"
          /\ \/ UNCHANGED turn
             \/ ~Freed(embedded[c]) /\ turn' = Turn("fetch", c, r)
      BY <2>2 DEF FulfillPromise, HeapFor
    <3>2. embedded[c] # None /\ (life[r] = "live" => held[r] = c)
      BY <3>1 DEF IInv, FetchesOfRequests
    <3>3. CASE UNCHANGED turn
      BY <3>1, <3>3 DEF IInv, TypeOK, TurnIsFine
    <3>4. CASE ~Freed(embedded[c]) /\ turn' = Turn("fetch", c, r)
      <4>1. embedded[c] \in Request /\ life[embedded[c]] = "live"
        BY <3>2, <3>4 DEF Freed, IInv, TypeOK, EmbeddedWereLent
      <4>2. held[embedded[c]] = c /\ (life[r] = "live" => embedded[c] = r)
        BY <3>2, <4>1 DEF IInv, EmbeddedWereLent, ContextsAreLentOnce
      <4> QED BY <3>4, <4>1, <4>2 DEF Turn, TurnType, TurnIsFine
    <3> QED BY <3>1, <3>3, <3>4
  <2>3. CASE \E c \in Context : TopTimerBegins(c)
      BY <2>3 DEF TopTimerBegins, Turn, TurnType, TurnIsFine
  <2>4. CASE TurnEnds
      BY <2>4 DEF TurnEnds, Turn, NoTurn, TurnType, TurnIsFine
  <2>5. CASE FetchEndsLate \/ TopTimerEnds
    <3>1. UNCHANGED turn /\ turn.kind \in {"fetch", "top"}
      BY <2>5 DEF FetchEndsLate, TopTimerEnds
    <3> QED BY <3>1 DEF IInv, TypeOK, TurnsOfRequests, AllocatesInLiveHeap, HeapFor,
                        TurnIsFine
  <2> QED BY <2>1, <2>2, <2>3, <2>4, <2>5
<1>3. TypeOK'
    BY <1>1, <1>2 DEF IInv, TypeOK
<1>4. /\ ContextsAreLentOnce' /\ FirstListenerIsTopLevel'
      /\ EmbeddedWereLent' /\ FetchesOfRequests'
    BY <1>1 DEF IInv, ContextsAreLentOnce, FirstListenerIsTopLevel,
                EmbeddedWereLent, FetchesOfRequests
<1>5. TurnsOfRequests' /\ AllocatesInLiveHeap'
    BY <1>1, <1>2 DEF TurnIsFine, TurnsOfRequests, AllocatesInLiveHeap, HeapFor
<1>6. LockedDuringDispatch'
    BY <1>1, <1>2 DEF IInv, LockedDuringDispatch, TurnIsFine
<1> QED BY <1>3, <1>4, <1>5, <1>6 DEF IInv

-----------------------------------------------------------------------------
\* A listener is appended, and only to the target of the turn.
LEMMA AddKeepsIInv ==
    ASSUME IInv, NEW name \in Type, AddEventListener(name)
    PROVE  IInv'
<1> DEFINE c == turn.context
<1> DEFINE item == [type |-> name, heap |-> embedded[c]]
<1>1. /\ UNCHANGED <<idle, held, made, bad, locked, embedded, life, fetching, armed, turn>>
      /\ turn.kind \in {"listener", "task", "fetch", "top"}
      /\ \/ UNCHANGED listeners
         \/ listeners' = [listeners EXCEPT ![c] = Append(listeners[c], item)]
      /\ fault' \in {"none", "use_after_free", "deadlock", "null_scope"}
    BY DEF AddEventListener, leaseVars, HeapFor, IInv, TypeOK
<1>2. c \in Context
    BY <1>1 DEF IInv, TypeOK, TurnType, NoTurn, Turn
<1>3. TypeOK'
  <2>1. item \in Item
      BY <1>2 DEF IInv, TypeOK, Item
  <2>2. Append(listeners[c], item) \in Seq(Item)
      BY <1>2, <2>1, AppendProperties DEF IInv, TypeOK
  <2>3. listeners' \in [Context -> Seq(Item)]
      BY <1>1, <2>2 DEF IInv, TypeOK
  <2> QED BY <1>1, <2>3 DEF IInv, TypeOK
<1>4. /\ ContextsAreLentOnce' /\ TurnsOfRequests' /\ AllocatesInLiveHeap'
      /\ LockedDuringDispatch' /\ EmbeddedWereLent' /\ FetchesOfRequests'
    BY <1>1 DEF IInv, ContextsAreLentOnce, TurnsOfRequests, AllocatesInLiveHeap,
                HeapFor, LockedDuringDispatch, EmbeddedWereLent, FetchesOfRequests
<1>5. FirstListenerIsTopLevel'
  <2> SUFFICES ASSUME NEW d \in made \ bad
               PROVE  \E i \in DOMAIN listeners'[d] :
                          /\ listeners'[d][i].type = "fetch"
                          /\ \A j \in 1 .. i : listeners'[d][j].heap = None
      BY <1>1 DEF FirstListenerIsTopLevel
  <2>1. PICK i \in DOMAIN listeners[d] :
            /\ listeners[d][i].type = "fetch"
            /\ \A j \in 1 .. i : listeners[d][j].heap = None
      BY DEF IInv, FirstListenerIsTopLevel
  <2>2. d \in Context /\ listeners[d] \in Seq(Item)
      BY DEF IInv, TypeOK
  <2>3. /\ i \in DOMAIN listeners'[d]
        /\ \A j \in 1 .. i : listeners'[d][j] = listeners[d][j]
    <3>1. CASE listeners'[d] = listeners[d]
        BY <2>1, <3>1
    <3>2. CASE listeners'[d] = Append(listeners[d], item)
        BY <2>1, <2>2, <3>2, AppendProperties
    <3>3. listeners'[d] = listeners[d] \/ listeners'[d] = Append(listeners[d], item)
        BY <1>1, <1>2, <2>2 DEF IInv, TypeOK
    <3> QED BY <3>1, <3>2, <3>3
  <2>4. i \in 1 .. i
      BY <2>1, <2>2
  <2> QED BY <2>1, <2>3, <2>4
<1> QED BY <1>3, <1>4, <1>5 DEF IInv

\* A fetch is saved by the scope in the embedder data of its context.
LEMMA FetchKeepsIInv ==
    ASSUME IInv, GlobalFetch
    PROVE  IInv'
<1> DEFINE c == turn.context  scope == embedded[c]
<1>1. /\ UNCHANGED <<idle, held, made, bad, listeners, locked, embedded, life, armed, turn>>
      /\ turn.kind \in {"listener", "task", "fetch", "top"} /\ scope # None
      /\ UNCHANGED fetching \/ fetching' = fetching \cup {<<scope, c>>}
      /\ fault' \in {"none", "use_after_free", "deadlock", "null_scope"}
    BY DEF GlobalFetch, leaseVars, IInv, TypeOK
<1>2. c \in Context /\ scope \in Request
    BY <1>1 DEF IInv, TypeOK, TurnType, NoTurn, Turn
<1>3. TypeOK'
    BY <1>1, <1>2 DEF IInv, TypeOK
<1>4. FetchesOfRequests'
    BY <1>1, <1>2 DEF IInv, EmbeddedWereLent, FetchesOfRequests
<1>5. /\ ContextsAreLentOnce' /\ TurnsOfRequests' /\ AllocatesInLiveHeap'
      /\ LockedDuringDispatch' /\ EmbeddedWereLent' /\ FirstListenerIsTopLevel'
    BY <1>1 DEF IInv, ContextsAreLentOnce, TurnsOfRequests, AllocatesInLiveHeap,
                HeapFor, LockedDuringDispatch, EmbeddedWereLent, FirstListenerIsTopLevel
<1> QED BY <1>3, <1>4, <1>5 DEF IInv

\* The scope is deleted, and its context is in the queue or deleted.
LEMMA ScopeEndKeepsIInv ==
    ASSUME IInv, TurnEndsScope
    PROVE  IInv'
<1> DEFINE r == turn.req  c == held[turn.req]
<1> USE NoneAssumption
<1>1. /\ turn.kind \in {"respond", "task", "fetch"} /\ life[r] = "live"
      /\ held' = [held EXCEPT ![r] = None]
      /\ \/ c \notin bad /\ idle' = Append(idle, c)
         \/ UNCHANGED idle
      /\ life' = [life EXCEPT ![r] = "dead"]
      /\ turn' = NoTurn /\ fetching' \subseteq fetching
      /\ UNCHANGED <<made, bad, listeners, locked, embedded, armed, fault>>
    BY DEF TurnEndsScope, InOwnTurn, Lease!Return, Lease!Discard
<1>2. /\ r \in Request /\ c \in made /\ c \in Context
      /\ embedded[c] = r
    BY <1>1 DEF IInv, TypeOK, TurnsOfRequests, AllocatesInLiveHeap, ContextsAreLentOnce
<1>3. /\ idle' \in Seq(Context)
      /\ \A i \in DOMAIN idle' :
            \/ i \in DOMAIN idle /\ idle'[i] = idle[i]
            \/ c \notin bad /\ idle'[i] = c /\ i = Len(idle) + 1
  <2>1. idle \in Seq(Context)
      BY DEF IInv, TypeOK
  <2>2. CASE UNCHANGED idle
      BY <2>1, <2>2
  <2>3. CASE c \notin bad /\ idle' = Append(idle, c)
    <3>1. /\ idle' \in Seq(Context) /\ Len(idle') = Len(idle) + 1
          /\ \A i \in 1 .. Len(idle) : idle'[i] = idle[i]
          /\ idle'[Len(idle) + 1] = c
        BY <1>2, <2>1, <2>3, AppendProperties
    <3>2. Len(idle) \in Nat /\ DOMAIN idle = 1 .. Len(idle)
        BY <2>1
    <3>3. DOMAIN idle' = 1 .. Len(idle) + 1
        BY <3>1
    <3> QED BY <2>3, <3>1, <3>2, <3>3
  <2> QED BY <1>1, <2>2, <2>3
<1>4. TypeOK'
    BY <1>1, <1>2, <1>3 DEF IInv, TypeOK, TurnType
<1>5. ContextsAreLentOnce'
  <2>1. ASSUME NEW q \in Request
        PROVE  IF life'[q] = "live"
               THEN held'[q] \in made' /\ embedded'[held'[q]] = q
               ELSE held'[q] = None
      BY <1>1, <1>2 DEF IInv, TypeOK, ContextsAreLentOnce
  <2>2. \A q \in Request : held'[q] # c
      BY <1>1, <1>2 DEF IInv, TypeOK, ContextsAreLentOnce
  <2>3. ASSUME NEW i \in DOMAIN idle'
        PROVE  idle'[i] \in made' \ bad' /\ \A q \in Request : held'[q] # idle'[i]
    <3>1. CASE idle'[i] = c /\ c \notin bad
        BY <1>1, <1>2, <2>2, <3>1
    <3>2. CASE i \in DOMAIN idle /\ idle'[i] = idle[i]
      <4>1. idle[i] \in made \ bad /\ \A q \in Request : held[q] # idle[i]
          BY <3>2 DEF IInv, ContextsAreLentOnce
      <4> QED BY <1>1, <1>2, <3>2, <4>1 DEF IInv, TypeOK
    <3> QED BY <1>3, <3>1, <3>2
  <2>4. ASSUME NEW i \in DOMAIN idle', NEW j \in DOMAIN idle', idle'[i] = idle'[j]
        PROVE  i = j
    <3>1. \A k \in DOMAIN idle : idle[k] # c
        BY <1>2 DEF IInv, ContextsAreLentOnce
    <3> QED BY <1>3, <2>4, <3>1 DEF IInv, ContextsAreLentOnce
  <2> QED BY <2>1, <2>3, <2>4 DEF ContextsAreLentOnce
<1>6. TurnsOfRequests' /\ AllocatesInLiveHeap'
    BY <1>1 DEF TurnsOfRequests, AllocatesInLiveHeap, NoTurn, Turn
<1>7. LockedDuringDispatch' /\ FirstListenerIsTopLevel'
    BY <1>1 DEF IInv, LockedDuringDispatch, FirstListenerIsTopLevel, NoTurn, Turn
<1>8. EmbeddedWereLent' /\ FetchesOfRequests'
    BY <1>1, <1>2 DEF IInv, TypeOK, EmbeddedWereLent, FetchesOfRequests
<1> QED BY <1>4, <1>5, <1>6, <1>7, <1>8 DEF IInv

-----------------------------------------------------------------------------
\* Every step keeps the invariant, one lemma for each kind of turn.
LEMMA StepKeepsIInv == IInv /\ [Next]_vars => IInv'
<1> SUFFICES ASSUME IInv, [Next]_vars PROVE IInv'
    OBVIOUS
<1>1. CASE UNCHANGED vars
    BY <1>1 DEF vars, IInv, TypeOK, ContextsAreLentOnce, TurnsOfRequests,
                AllocatesInLiveHeap, HeapFor, LockedDuringDispatch, FirstListenerIsTopLevel,
                EmbeddedWereLent, FetchesOfRequests
<1>2. CASE \E r \in Request : HandleHttpRequest(r)
    BY <1>2, LendKeepsIInv
<1>3. CASE \E r \in Request, c \in Context : HandleOnNewContext(r, c)
    BY <1>3, LendNewKeepsIInv
<1>4. CASE CallListener \/ DispatchEnds \/ ListenerReturns \/ RespondWith
    BY <1>4, DispatchKeepsIInv
<1>5. CASE \E name \in Type : AddEventListener(name)
    BY <1>5, AddKeepsIInv
<1>6. CASE \/ \E r \in Request : TaskBegins(r)
           \/ \E r \in Request, c \in Context : FulfillPromise(r, c)
           \/ \E c \in Context : TopTimerBegins(c)
           \/ TurnEnds \/ FetchEndsLate \/ TopTimerEnds
    BY <1>6, CallbackKeepsIInv
<1>7. CASE TurnEndsScope
    BY <1>7, ScopeEndKeepsIInv
<1>8. CASE GlobalFetch
    BY <1>8, FetchKeepsIInv
<1> QED BY <1>1, <1>2, <1>3, <1>4, <1>5, <1>6, <1>7, <1>8 DEF Next, EndOfTurn

\* Lending, mutexes and heaps stay consistent, whatever listeners scripts leave behind
\* (dispatchEvent, getHeap, recycle_context).
THEOREM Invariance == Spec => []IInv
BY InitIInv, StepKeepsIInv, PTL DEF Spec

\* Whatever a script does, the state is of its type.
THEOREM TypeCorrect == Spec => []TypeOK
BY Invariance, PTL DEF IInv

\* What a callback allocates goes into a heap that lives and has the context, that
\* of its own request while it lives, for every number of requests and contexts,
\* every order in which scopes end, and fetches that are answered after that
\* (getHeap, fulfill_promise).
THEOREM ObjectsGoToLiveHeaps == Spec => []AllocatesInLiveHeap
BY Invariance, PTL DEF IInv

\* dispatchEvent releases the mutex of its target on every way out of it.
THEOREM MutexIsReleased == Spec => []LockedDuringDispatch
BY Invariance, PTL DEF IInv

\* The listeners of the script come before what requests add, in every context
\* whose script was loaded without an error.
THEOREM ScriptListensFirst == Spec => []FirstListenerIsTopLevel
BY Invariance, PTL DEF IInv

-----------------------------------------------------------------------------
\* The only step that changes a target while it is locked would be the one of
\* addListener, and that one blocks.
THEOREM TargetsAreFixed == Spec => DispatchSeesFixedTarget
<1>1. ASSUME IInv, [Next]_vars
      PROVE  [\A c \in Context : locked[c] /\ locked'[c] => listeners'[c] = listeners[c]]_vars
  <2> SUFFICES ASSUME Next, NEW c \in Context, locked[c]
               PROVE  listeners'[c] = listeners[c]
      BY <1>1
  <2>1. turn.kind \in {"dispatch", "listener"} /\ turn.context = c
      BY <1>1 DEF IInv, LockedDuringDispatch
  <2>2. CASE \E r \in Request : HandleHttpRequest(r)
      BY <2>2 DEF HandleHttpRequest
  <2>3. CASE \E r \in Request, d \in Context : HandleOnNewContext(r, d)
      BY <2>1, <2>3 DEF HandleOnNewContext
  <2>4. CASE \E name \in Type : AddEventListener(name)
      BY <2>1, <2>4 DEF AddEventListener, WouldBlock
  <2>5. CASE RespondWith \/ GlobalFetch \/ EndOfTurn
      BY <2>5 DEF RespondWith, GlobalFetch, EndOfTurn, FetchEndsLate, CallListener, DispatchEnds, ListenerReturns,
                  TurnEndsScope, TurnEnds
  <2>6. CASE \/ \E r \in Request : TaskBegins(r)
             \/ \E r \in Request, d \in Context : FulfillPromise(r, d)
             \/ \E d \in Context : TopTimerBegins(d)
             \/ TopTimerEnds
      BY <2>6 DEF TaskBegins, FulfillPromise, TopTimerBegins, TopTimerEnds
  <2> QED BY <2>2, <2>3, <2>4, <2>5, <2>6 DEF Next
<1> QED BY <1>1, Invariance, PTL DEF Spec, DispatchSeesFixedTarget

-----------------------------------------------------------------------------
(* Scripts that respond in the first listener.                             *)

ResponderHabits ==
    {"first_responds", "adds_outside_dispatch", "no_top_level_timers", "awaits_fetches"}

\* With these habits the loop only ever calls one listener, the first, and a
\* context with an error, which may have no listener of its script, has just
\* been loaded when it dispatches.
FirstCallOnly ==
    /\ fault = "none"
    /\ armed = {}
    /\ turn.kind # "top"
    /\ turn.kind = "dispatch" =>
          /\ turn.at = 0
          /\ turn.context \in bad =>
                \A i \in DOMAIN listeners[turn.context] :
                    listeners[turn.context][i].heap = None

\* Every fetch under way is one of a live scope.
FetchesAreAwaited ==
    /\ \A f \in fetching : life[f[1]] = "live"
    /\ turn.kind = "fetch" => life[turn.req] = "live"

\* A scope ends only without fetches, and a fetch is saved by a live one.
LEMMA StepKeepsFetchesAwaited ==
    ASSUME "awaits_fetches" \in Habits, IInv, FirstCallOnly, FetchesAreAwaited, [Next]_vars
    PROVE  FetchesAreAwaited'
<1>1. CASE UNCHANGED vars
    BY <1>1 DEF vars, FetchesAreAwaited
<1>2. ASSUME NEW r \in Request, NEW c \in Context, BeginDispatch(c, r), UNCHANGED fetching
      PROVE  FetchesAreAwaited'
    BY <1>2 DEF BeginDispatch, Turn, IInv, TypeOK, FetchesAreAwaited
<1>3. ASSUME NEW r \in Request, HandleHttpRequest(r)
      PROVE  FetchesAreAwaited'
  <2>1. Head(idle) \in Context
    BY <1>3, HeadTailProperties DEF HandleHttpRequest, Lease!Lend, IInv, TypeOK
  <2> QED BY <1>2, <1>3, <2>1 DEF HandleHttpRequest
<1>4. ASSUME NEW r \in Request, NEW c \in Context, HandleOnNewContext(r, c)
      PROVE  FetchesAreAwaited'
    BY <1>2, <1>4 DEF HandleOnNewContext
<1>5. ASSUME UNCHANGED <<life, fetching>>, turn'.kind = "fetch" => UNCHANGED turn
      PROVE  FetchesAreAwaited'
    BY <1>5 DEF FetchesAreAwaited
<1>6. CASE CallListener \/ ListenerReturns \/ RespondWith
  <2>1. turn.kind \in {"dispatch", "listener"}
    BY <1>6 DEF CallListener, ListenerReturns, RespondWith
  <2>2. turn \in TurnType
    BY <2>1 DEF IInv, TypeOK, NoTurn, Turn
  <2>3. turn'.kind = "fetch" => UNCHANGED turn
    <3>1. CASE CallListener
      BY <2>1, <2>2, <3>1 DEF CallListener, TurnType, NoTurn, Turn
    <3>2. CASE ListenerReturns
      BY <2>1, <2>2, <3>2 DEF ListenerReturns, TurnType, NoTurn, Turn
    <3>3. CASE RespondWith
      BY <2>1, <2>2, <3>3 DEF RespondWith, TurnType, NoTurn, Turn
    <3> QED BY <1>6, <3>1, <3>2, <3>3
  <2> QED BY <1>5, <1>6, <2>3 DEF CallListener, ListenerReturns, RespondWith
<1>7. CASE DispatchEnds
    BY <1>5, <1>7 DEF DispatchEnds, Turn
<1>8. CASE TurnEnds \/ TopTimerEnds \/ FetchEndsLate
    BY <1>5, <1>8 DEF TurnEnds, TopTimerEnds, FetchEndsLate, Turn, NoTurn
<1>9. ASSUME NEW r \in Request, TaskBegins(r)
       PROVE  FetchesAreAwaited'
    BY <1>5, <1>9 DEF TaskBegins, Turn
<1>10. ASSUME NEW c \in Context, TopTimerBegins(c)
       PROVE  FetchesAreAwaited'
    BY <1>5, <1>10 DEF TopTimerBegins, Turn
<1>11. ASSUME NEW name \in Type, AddEventListener(name)
       PROVE  FetchesAreAwaited'
    BY <1>5, <1>11 DEF AddEventListener
<1>12. CASE GlobalFetch
  <2>1. turn.kind # "top" /\ ~Freed(embedded[turn.context])
      BY <1>12 DEF GlobalFetch, FirstCallOnly, IInv, AllocatesInLiveHeap, HeapFor, Freed
  <2>2. /\ embedded[turn.context] \in Request
        /\ life[embedded[turn.context]] = "live"
      BY <1>12, <2>1 DEF GlobalFetch, IInv, AllocatesInLiveHeap, HeapFor
  <2> QED BY <1>12, <2>2 DEF GlobalFetch, FetchesAreAwaited
<1>13. CASE TurnEndsScope
    BY <1>13 DEF TurnEndsScope, InOwnTurn, NoTurn, Turn, IInv, TypeOK, TurnsOfRequests,
                FetchesAreAwaited
<1>14. ASSUME NEW r \in Request, NEW c \in Context, FulfillPromise(r, c)
       PROVE  FetchesAreAwaited'
    BY <1>14 DEF FulfillPromise, Turn, FetchesAreAwaited
<1> QED BY <1>1, <1>3, <1>4, <1>6, <1>7, <1>8, <1>9, <1>10, <1>11, <1>12, <1>13, <1>14
    DEF Next, EndOfTurn

\* The first listener for fetch of the context that dispatches is never freed.
LEMMA FirstListenerLives ==
    ASSUME IInv, FirstCallOnly, turn.kind = "dispatch",
           NEW i \in DOMAIN listeners[turn.context], ComesNext(turn.context, i)
    PROVE  listeners[turn.context][i].heap = None
<1> DEFINE c == turn.context
<1>1. c \in made /\ listeners[c] \in Seq(Item)
    BY NoneAssumption
       DEF IInv, TypeOK, AllocatesInLiveHeap, TurnsOfRequests, ContextsAreLentOnce
<1>2. CASE c \in bad
    BY <1>2 DEF FirstCallOnly
<1>3. CASE c \notin bad
  <2>1. PICK k \in DOMAIN listeners[c] :
            /\ listeners[c][k].type = "fetch"
            /\ \A j \in 1 .. k : listeners[c][j].heap = None
      BY <1>1, <1>3 DEF IInv, FirstListenerIsTopLevel
  <2>2. i \in Nat \ {0} /\ k \in Nat \ {0}
      BY <1>1, <2>1
  <2>3. ~(k < i)
      BY <2>1, <2>2 DEF FirstCallOnly, ComesNext
  <2> QED BY <2>1, <2>2, <2>3
<1> QED BY <1>2, <1>3

\* A listener that is called responds, so the loop of dispatchEvent does not get to
\* the next one, which may be freed.
LEMMA StepKeepsFirstCallOnly ==
    ASSUME ResponderHabits \subseteq Habits, IInv, FirstCallOnly, FetchesAreAwaited,
           [Next]_vars
    PROVE  FirstCallOnly'
<1> USE DEF ResponderHabits
<1>1. CASE UNCHANGED vars
    BY <1>1 DEF vars, FirstCallOnly
<1>2. ASSUME NEW r \in Request, HandleHttpRequest(r)
      PROVE  FirstCallOnly'
  <2>1. turn.kind = "idle" /\ idle # <<>> /\ UNCHANGED <<bad, armed>>
        /\ BeginDispatch(Head(idle), r)
      BY <1>2 DEF HandleHttpRequest, Lease!Lend
  <2>2. Head(idle) \in made \ bad /\ ~locked[Head(idle)]
    <3>1. 1 \in DOMAIN idle /\ Head(idle) = idle[1]
        BY <2>1 DEF IInv, TypeOK
    <3> QED BY <2>1, <3>1 DEF IInv, TypeOK, ContextsAreLentOnce, LockedDuringDispatch
  <2> QED BY <2>1, <2>2 DEF BeginDispatch, WouldBlock, Turn, FirstCallOnly
<1>3. ASSUME NEW r \in Request, NEW c \in Context, HandleOnNewContext(r, c)
      PROVE  FirstCallOnly'
  <2>1. turn.kind = "idle" /\ BeginDispatch(c, r)
      BY <1>3 DEF HandleOnNewContext
  <2>2. PICK items \in TopLevelItems :
            listeners' = [listeners EXCEPT ![c] = items]
      BY <1>3 DEF HandleOnNewContext
  <2>3. armed' = {}
      BY <1>3 DEF HandleOnNewContext, MayArm, FirstCallOnly
  <2>4. ~locked[c]
      BY <2>1 DEF IInv, LockedDuringDispatch
  <2>5. listeners'[c] = items /\ \A i \in DOMAIN items : items[i].heap = None
      BY <2>2, TopLevelItemsType DEF IInv, TypeOK
  <2> QED BY <2>1, <2>3, <2>4, <2>5 DEF BeginDispatch, WouldBlock, Turn, FirstCallOnly
<1>4. CASE CallListener
  <2>1. PICK i \in DOMAIN listeners[turn.context] :
            /\ ComesNext(turn.context, i)
            /\ IF Freed(listeners[turn.context][i].heap)
               THEN fault' = "use_after_free"
               ELSE /\ turn' = [turn EXCEPT !.kind = "listener", !.at = i]
                    /\ UNCHANGED fault
      BY <1>4 DEF CallListener
  <2>2. turn.kind = "dispatch" /\ UNCHANGED armed
      BY <1>4 DEF CallListener
  <2>3. listeners[turn.context][i].heap = None
      BY <2>1, <2>2, FirstListenerLives
  <2>4. turn'.kind = "listener" /\ UNCHANGED fault
    <3>1. turn \in TurnType /\ turn # NoTurn
        BY <2>2 DEF IInv, TypeOK, NoTurn, Turn
    <3> QED BY <2>1, <2>3, <3>1 DEF TurnType, Freed
  <2> QED BY <2>1, <2>2, <2>3, <2>4 DEF FirstCallOnly
<1>5. CASE ListenerReturns
    BY <1>5 DEF ListenerReturns, Stops, FirstCallOnly, Turn
<1>6. CASE DispatchEnds \/ TurnEndsScope \/ TurnEnds \/ \E r \in Request : TaskBegins(r)
    BY <1>6 DEF DispatchEnds, TurnEndsScope, TurnEnds, TaskBegins, InOwnTurn, Turn,
                NoTurn, FirstCallOnly
<1>7. CASE RespondWith
  <2>1. turn'.kind = "listener"
    <3>1. turn \in TurnType /\ turn # NoTurn
        BY <1>7 DEF RespondWith, IInv, TypeOK, NoTurn, Turn
    <3> QED BY <1>7, <3>1 DEF RespondWith, TurnType
  <2> QED BY <1>7, <2>1 DEF RespondWith, FirstCallOnly
<1>8. ASSUME NEW name \in Type, AddEventListener(name)
      PROVE  FirstCallOnly'
  <2>1. turn.kind \in {"task", "fetch"} /\ UNCHANGED <<turn, armed>>
      BY <1>8 DEF AddEventListener, FirstCallOnly
  <2>2. turn.context \in Context
      BY <2>1 DEF IInv, TypeOK, TurnType, NoTurn, Turn
  <2>3. /\ ~locked[turn.context]
        /\ ~Freed(embedded[turn.context])
      BY <2>1, <2>2 DEF Freed, IInv, LockedDuringDispatch, AllocatesInLiveHeap, HeapFor
  <2>4. UNCHANGED fault
      BY <1>8, <2>3 DEF AddEventListener, HeapFor, WouldBlock
  <2> QED BY <2>1, <2>4 DEF FirstCallOnly
<1>9. CASE TopTimerEnds \/ FetchEndsLate \/ \E c \in Context : TopTimerBegins(c)
    BY <1>9 DEF TopTimerEnds, FetchEndsLate, TopTimerBegins, FirstCallOnly,
                FetchesAreAwaited
<1>10. CASE GlobalFetch
  <2>1. turn.kind \notin {"top", "dispatch"} /\ ~Freed(embedded[turn.context])
      BY <1>10 DEF GlobalFetch, FirstCallOnly, IInv, AllocatesInLiveHeap, HeapFor, Freed
  <2> QED BY <1>10, <2>1 DEF GlobalFetch, FirstCallOnly
<1>11. ASSUME NEW r \in Request, NEW c \in Context, FulfillPromise(r, c)
       PROVE  FirstCallOnly'
  <2>1. <<r, c>> \in fetching /\ life[r] = "live" /\ held[r] = c
      BY <1>11 DEF FulfillPromise, IInv, FetchesOfRequests, FetchesAreAwaited
  <2>2. ~Freed(HeapFor(c))
      BY <2>1 DEF IInv, ContextsAreLentOnce, Freed, HeapFor
  <2> QED BY <1>11, <2>2 DEF FulfillPromise, Turn, FirstCallOnly
<1> QED BY <1>1, <1>2, <1>3, <1>4, <1>5, <1>6, <1>7, <1>8, <1>9, <1>10, <1>11
        DEF Next, EndOfTurn

\* Scripts that respond in the first listener, neither add listeners in a
\* listener nor set timers while they are loaded, and await their fetches, are
\* safe, whatever they leave in their targets later: no mutex is waited for, no
\* listener that is gone is called, and no callback allocates in a freed heap or
\* ends on a scope that is gone.
THEOREM RespondersAreSafe ==
    ASSUME ResponderHabits \subseteq Habits
    PROVE  Spec => []NoFault
<1>1. Init => FirstCallOnly /\ FetchesAreAwaited
    BY DEF ResponderHabits, Init, MayArm, FirstCallOnly, FetchesAreAwaited, NoTurn, Turn
<1>2. IInv /\ FirstCallOnly /\ FetchesAreAwaited /\ [Next]_vars =>
          FirstCallOnly' /\ FetchesAreAwaited'
    BY StepKeepsFirstCallOnly, StepKeepsFetchesAwaited DEF ResponderHabits
<1>3. FirstCallOnly => NoFault
    BY DEF FirstCallOnly, NoFault
<1> QED BY <1>1, <1>2, <1>3, Invariance, PTL DEF Spec
=============================================================================
