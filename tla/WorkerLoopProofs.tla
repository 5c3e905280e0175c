-------------------------- MODULE WorkerLoopProofs --------------------------
(***************************************************************************)
(* Proofs about WorkerLoop, for every script and any number of requests,   *)
(* contexts, fetches, timers, promises and listeners.                      *)
(*                                                                         *)
(* The properties are proved together, as one inductive invariant: which   *)
(* context a scope recycles depends on which callback is running, and      *)
(* whose references a fetch has on which scopes live.                      *)
(***************************************************************************)
EXTENDS WorkerLoopLease, TLAPS

IInv ==
    /\ TypeOK
    /\ CallbacksConsistent
    /\ ContextOwnership
    /\ FetchReferences
    /\ TimersDieWithScope

\* No state has a scope, a fetch or a timer yet, and the queue has one context.
LEMMA InitIInv == Init => IInv
<1>1. SUFFICES ASSUME Init PROVE IInv
    OBVIOUS
<1>2. PICK c \in Context :
        /\ pool = <<c>>
        /\ ctx = [d \in Context |->
                    IF d = c THEN MakeContext("ready", FALSE, NListeners)
                             ELSE NoContext]
    BY <1>1 DEF Init
<1>3. /\ scope = [r \in Request |-> NoScope]
      /\ fetch = [f \in Fetch |-> NoFetch]
      /\ timer = [t \in Timer |-> NoTimer]
      /\ promise = [r \in Request |-> [n \in Name |-> "pending"]]
      /\ turn = Idle
      /\ wire = [r \in Request |-> <<>>]
      /\ fault = "none"
    BY <1>1 DEF Init
<1>4. TypeOK
  <2>1. pool \in Seq(Context) BY <1>2
  <2>2. ctx \in [Context -> ContextType]
    BY <1>2, ListenerAssumption DEF MakeContext, NoContext, ContextType
  <2>3. scope \in [Request -> ScopeType]
    BY <1>3 DEF NoScope, ScopeWith, ScopeType
  <2>4. fetch \in [Fetch -> FetchType]
    BY <1>3 DEF NoFetch, FetchType, FetchState
  <2>5. timer \in [Timer -> TimerType]
    BY <1>3 DEF NoTimer, TimerType
  <2>6. promise \in [Request -> [Name -> PromiseValue]]
    BY <1>3 DEF PromiseValue
  <2>7. turn \in TurnType
    BY <1>3, ListenerAssumption DEF Idle, NewTurn, TurnType
  <2>8. wire \in [Request -> Seq(Request)]
    BY <1>3
  <2> QED BY <1>3, <2>1, <2>2, <2>3, <2>4, <2>5, <2>6, <2>7, <2>8 DEF TypeOK
<1>5. \A r \in Request : ~Live(r)
    BY <1>3 DEF Live, NoScope, ScopeWith
<1>6. CallbacksConsistent
    BY <1>3, <1>5 DEF CallbacksConsistent, Idle, NewTurn, NoFetch
<1>7. ContextOwnership
  <2>1. DOMAIN pool = {1} /\ pool[1] = c
    BY <1>2
  <2> QED
    BY <1>2, <1>5, <2>1
    DEF ContextOwnership, Pooled, Held, MakeContext, NoContext
<1>8. FetchReferences
    BY <1>3 DEF FetchReferences, NoFetch
<1>9. TimersDieWithScope
    BY <1>3 DEF TimersDieWithScope, NoTimer
<1> QED BY <1>4, <1>6, <1>7, <1>8, <1>9 DEF IInv

-----------------------------------------------------------------------------
(* The script.                                                             *)

\* The script of a turn runs in the context of a live scope, and its calls
\* reach that scope.
LEMMA CurrentScopeIsTurn ==
    ASSUME IInv, InScript
    PROVE  /\ turn.req \in Request
           /\ Live(turn.req)
           /\ scope[turn.req].context \in Context
           /\ CurrentScope = turn.req
BY DEF IInv, CallbacksConsistent, ContextOwnership, InScript, CurrentScope

\* The fields a scope recycles its context by, unchanged.
SameHold(s, t) ==
    /\ t.life = s.life
    /\ t.context = s.context
    /\ t.runtime = s.runtime

\* A step that changes neither the life of a scope nor what holds a context,
\* and leaves the fetches and timers alone, keeps the invariant.
LEMMA EditKeepsIInv ==
    ASSUME IInv,
           NEW q \in Request, NEW s \in ScopeType,
           scope' = [scope EXCEPT ![q] = s],
           SameHold(scope[q], s),
           ctx' \in [Context -> ContextType],
           \A c \in Context : /\ ctx'[c].state = ctx[c].state
                             /\ ctx'[c].scope = ctx[c].scope
                             /\ ctx'[c].error = ctx[c].error
                             /\ ctx'[c].listeners = ctx[c].listeners,
           promise' \in [Request -> [Name -> PromiseValue]],
           turn' \in TurnType,
           turn'.kind = turn.kind,
           turn'.req = turn.req,
           turn'.listener = turn.listener,
           UNCHANGED <<pool, fetch, timer, wire, fault>>
    PROVE  IInv'
<1>1. \A r \in Request : /\ scope'[r].life = scope[r].life
                         /\ scope'[r].context = scope[r].context
                         /\ scope'[r].runtime = scope[r].runtime
    BY DEF IInv, TypeOK, SameHold
<1>2. TypeOK'
    BY DEF IInv, TypeOK
<1>3. \A r \in Request : Live(r)' <=> Live(r)
    BY <1>1 DEF Live
<1>4. CallbacksConsistent'
  <2>1. turn.kind # "idle" => turn.req \in Request /\ Live(turn.req)
    BY DEF IInv, CallbacksConsistent
  <2>2. turn.kind = "listener" => scope[turn.req].context \in Context
    BY <2>1 DEF IInv, ContextOwnership
  <2> QED BY <1>1, <1>3, <2>1, <2>2 DEF IInv, CallbacksConsistent
<1>5. ContextOwnership'
  <2>1. \A c \in Context : /\ Pooled(c)' <=> Pooled(c)
                           /\ Held(c)' <=> Held(c)
    BY <1>1, <1>3 DEF Pooled, Held
  <2> QED BY <1>1, <1>3, <2>1 DEF IInv, ContextOwnership
<1>6. FetchReferences'
    BY <1>1, <1>3 DEF IInv, FetchReferences
<1>7. TimersDieWithScope'
  <2>1. \A t \in Timer : timer[t].scope \in Request \cup {None}
    BY DEF IInv, TypeOK, TimerType
  <2>2. \A t \in Timer : timer[t].state = "armed" =>
            scope'[timer[t].scope].life = scope[timer[t].scope].life
    BY <2>1, <1>1 DEF IInv, TypeOK
  <2> QED BY <2>2 DEF IInv, TimersDieWithScope, Live
<1> QED BY <1>2, <1>4, <1>5, <1>6, <1>7 DEF IInv

\* set_response and set_error_msg, on the record.
LEMMA ScopeSetters ==
    ASSUME NEW s \in ScopeType, NEW r \in Request, NEW st \in Status
    PROVE  /\ SetResponse(s, r, st) \in ScopeType
           /\ SameHold(s, SetResponse(s, r, st))
           /\ SetError(s) \in ScopeType
           /\ SameHold(s, SetError(s))
<1>1. st \in Int
    BY StatusAssumption
<1>2. SetResponse(s, r, st) \in ScopeType /\ SameHold(s, SetResponse(s, r, st))
    BY <1>1 DEF SetResponse, ScopeType, SameHold
<1>3. SetError(s) \in ScopeType /\ SameHold(s, SetError(s))
    BY DEF SetError, ScopeType, SameHold
<1> QED BY <1>2, <1>3

\* respondWith in its three forms.
LEMMA RespondWithKeepsIInv ==
    ASSUME IInv,
           \/ \E st \in Status : RespondWithResponse(st)
           \/ RespondWithInvalid
           \/ \E n \in Name, st \in Status : RespondWithPromise(n, st)
    PROVE  IInv'
<1> USE DEF Cancel
<1>1. ASSUME NEW st \in Status, RespondWithResponse(st)
      PROVE  IInv'
  <2> DEFINE s == SetResponse(scope[turn.req], turn.req, st)
  <2>1. /\ turn.req \in Request
        /\ CurrentScope = turn.req
    BY <1>1, CurrentScopeIsTurn DEF RespondWithResponse
  <2>2. s \in ScopeType /\ SameHold(scope[turn.req], s)
    BY <2>1, ScopeSetters DEF IInv, TypeOK
  <2>3. scope' = [scope EXCEPT ![turn.req] = s]
    BY <1>1, <2>1 DEF RespondWithResponse
  <2>4. turn' \in TurnType /\ turn'.kind = turn.kind /\ turn'.req = turn.req
        /\ turn'.listener = turn.listener
    BY <1>1 DEF RespondWithResponse, IInv, TypeOK, TurnType
  <2>5. UNCHANGED <<pool, ctx, fetch, timer, promise, wire, fault>>
    BY <1>1 DEF RespondWithResponse
  <2> HIDE DEF s
  <2> QED BY <2>1, <2>2, <2>3, <2>4, <2>5, EditKeepsIInv DEF IInv, TypeOK
<1>2. ASSUME RespondWithInvalid
      PROVE  IInv'
  <2>1. turn.req \in Request
    BY <1>2, CurrentScopeIsTurn DEF RespondWithInvalid
  <2>2. scope' = [scope EXCEPT ![turn.req] = scope[turn.req]]
        /\ scope[turn.req] \in ScopeType
    BY <1>2, <2>1 DEF RespondWithInvalid, IInv, TypeOK
  <2>3. turn' \in TurnType /\ turn'.kind = turn.kind /\ turn'.req = turn.req
        /\ turn'.listener = turn.listener
    BY <1>2 DEF RespondWithInvalid, IInv, TypeOK, TurnType
  <2>4. UNCHANGED <<pool, ctx, fetch, timer, promise, wire, fault>>
    BY <1>2 DEF RespondWithInvalid
  <2> QED BY <2>1, <2>2, <2>3, <2>4, EditKeepsIInv DEF IInv, TypeOK, SameHold
<1>3. ASSUME NEW n \in Name, NEW st \in Status, RespondWithPromise(n, st)
      PROVE  IInv'
  <2> DEFINE value == promise[turn.req][n]
             s == CASE value \in {"response", "shared"} ->
                           SetResponse(scope[turn.req], turn.req, st)
                    [] value = "rejected" -> SetError(scope[turn.req])
                    [] OTHER -> scope[turn.req]
             c == scope[turn.req].context
  <2>1. /\ turn.req \in Request
        /\ CurrentScope = turn.req
        /\ c \in Context
    BY <1>3, CurrentScopeIsTurn DEF RespondWithPromise
  <2>2. s \in ScopeType /\ SameHold(scope[turn.req], s)
    <3>1. scope[turn.req] \in ScopeType
      BY <2>1 DEF IInv, TypeOK
    <3>2. CASE value \in {"response", "shared"}
      BY <3>1, <3>2, <2>1, ScopeSetters
    <3>3. CASE value = "rejected"
      BY <3>1, <3>3, <2>1, ScopeSetters
    <3>4. CASE value \notin {"response", "shared", "rejected"}
      BY <3>1, <3>4 DEF SameHold
    <3> QED BY <3>2, <3>3, <3>4
  <2>3. scope' = [scope EXCEPT ![turn.req] = s]
    BY <1>3, <2>1 DEF RespondWithPromise
  <2>4. turn' \in TurnType /\ turn'.kind = turn.kind /\ turn'.req = turn.req
        /\ turn'.listener = turn.listener
    BY <1>3 DEF RespondWithPromise, IInv, TypeOK, TurnType
  <2>5. UNCHANGED <<pool, fetch, timer, promise, wire, fault>>
    BY <1>3 DEF RespondWithPromise
  <2>6. ctx' = ctx \/ ctx' = [ctx EXCEPT ![c].promise = <<turn.req, n>>]
    BY <1>3 DEF RespondWithPromise, SavePromise
  <2>7. <<turn.req, n>> \in Request \X Name
    BY <2>1
  <2>8. ctx' \in [Context -> ContextType]
        /\ \A d \in Context : /\ ctx'[d].state = ctx[d].state
                              /\ ctx'[d].scope = ctx[d].scope
                              /\ ctx'[d].error = ctx[d].error
                              /\ ctx'[d].listeners = ctx[d].listeners
    <3> DEFINE x == [ctx[c] EXCEPT !.promise = <<turn.req, n>>]
    <3>1. ctx \in [Context -> ContextType]
      BY DEF IInv, TypeOK
    <3>2. /\ x \in ContextType
          /\ x.state = ctx[c].state /\ x.scope = ctx[c].scope
          /\ x.error = ctx[c].error /\ x.listeners = ctx[c].listeners
      BY <2>1, <2>7, <3>1 DEF ContextType
    <3>3. ctx' = ctx \/ ctx' = [ctx EXCEPT ![c] = x]
      BY <2>6
    <3> HIDE DEF x
    <3> QED BY <2>1, <3>1, <3>2, <3>3
  <2> HIDE DEF s, c
  <2> QED BY <2>1, <2>2, <2>3, <2>4, <2>5, <2>8, EditKeepsIInv DEF IInv, TypeOK
<1> QED BY <1>1, <1>2, <1>3

\* waitUntil, and promises the script settles.
LEMMA PromisesKeepIInv ==
    ASSUME IInv,
           \/ \E n \in Name : WaitUntil(n)
           \/ \E n \in Name, v \in Outcome : SettlePromise(n, v)
           \/ \E i \in 1 .. NListeners : RejectListener(i)
    PROVE  IInv'
<1>1. turn.req \in Request /\ CurrentScope = turn.req
    BY CurrentScopeIsTurn DEF WaitUntil, SettlePromise, RejectListener
<1>2. scope[turn.req] \in ScopeType
    BY <1>1 DEF IInv, TypeOK
<1>3. ASSUME NEW n \in Name, WaitUntil(n)
      PROVE  IInv'
  <2> DEFINE s == [scope[turn.req] EXCEPT !.waits = @ \cup {n}]
  <2>1. s \in ScopeType /\ SameHold(scope[turn.req], s)
    BY <1>2 DEF ScopeType, SameHold
  <2>2. scope' = [scope EXCEPT ![turn.req] = s]
    BY <1>1, <1>3 DEF WaitUntil
  <2>3. UNCHANGED <<pool, ctx, fetch, timer, promise, turn, wire, fault>>
    BY <1>3 DEF WaitUntil
  <2> HIDE DEF s
  <2> QED BY <1>1, <2>1, <2>2, <2>3, EditKeepsIInv DEF IInv, TypeOK, SameHold
<1>4. ASSUME NEW n \in Name, NEW v \in Outcome, SettlePromise(n, v)
      PROVE  IInv'
  <2>1. promise' \in [Request -> [Name -> PromiseValue]]
    BY <1>4, OutcomeAssumption DEF SettlePromise, IInv, TypeOK
  <2>2. scope' = [scope EXCEPT ![turn.req] = scope[turn.req]]
    BY <1>4, <1>1 DEF SettlePromise, IInv, TypeOK
  <2>3. UNCHANGED <<pool, ctx, fetch, timer, turn, wire, fault>>
    BY <1>4 DEF SettlePromise
  <2> QED BY <1>1, <1>2, <2>1, <2>2, <2>3, EditKeepsIInv DEF IInv, TypeOK, SameHold
<1>5. ASSUME NEW i \in 1 .. NListeners, RejectListener(i)
      PROVE  IInv'
  <2> DEFINE s == [scope[turn.req] EXCEPT !.pending = @ \ {i},
                                          !.rejected = @ \cup {i}]
  <2>1. s \in ScopeType /\ SameHold(scope[turn.req], s)
    BY <1>2 DEF ScopeType, SameHold
  <2>2. scope' = [scope EXCEPT ![turn.req] = s]
    BY <1>1, <1>2, <1>5 DEF RejectListener, IInv, TypeOK, ScopeType
  <2>3. UNCHANGED <<pool, ctx, fetch, timer, promise, turn, wire, fault>>
    BY <1>5 DEF RejectListener
  <2> HIDE DEF s
  <2> QED BY <1>1, <2>1, <2>2, <2>3, EditKeepsIInv DEF IInv, TypeOK, SameHold
<1> QED BY <1>3, <1>4, <1>5

\* A step on fetches and timers that leaves scopes and contexts alone; it may
\* begin a callback of a live scope.
LEMMA CallKeepsIInv ==
    ASSUME IInv,
           UNCHANGED <<pool, ctx, scope, promise, wire, fault>>,
           \/ UNCHANGED turn
           \/ /\ turn.kind = "idle"
              /\ turn' \in TurnType
              /\ turn'.kind \in {"timer", "fetch"}
              /\ turn'.req \in Request
              /\ Live(turn'.req),
           fetch' \in [Fetch -> FetchType],
           FetchReferences',
           \A f \in Fetch : fetch'[f].state = "running" /\ fault = "none" =>
               turn'.kind = "fetch" /\ fetch'[f].scope = turn'.req,
           timer' \in [Timer -> TimerType],
           TimersDieWithScope'
    PROVE  IInv'
<1>1. TypeOK'
    BY DEF IInv, TypeOK
<1>2. ContextOwnership'
    BY DEF IInv, ContextOwnership, Pooled, Held, Live
<1>3. CallbacksConsistent'
    BY DEF IInv, CallbacksConsistent, Live
<1> QED BY <1>1, <1>2, <1>3 DEF IInv

\* The counting of one fetch: what FetchReferences says of the record x.
Counted(x) ==
    IF x.state = "unused" THEN x = NoFetch
    ELSE /\ x.scope \in Request
         /\ scope[x.scope].life # "none"
         /\ x.refs = (IF Live(x.scope) THEN 1 ELSE 0)
                   + (IF HeldByCallback(x) THEN 1 ELSE 0)

\* A step on one fetch keeps the counting if it keeps that of this fetch.
LEMMA OneFetchCounted ==
    ASSUME IInv, NEW f \in Fetch, NEW x \in FetchType, Counted(x),
           fetch' = [fetch EXCEPT ![f] = x], UNCHANGED scope
    PROVE  fetch' \in [Fetch -> FetchType] /\ FetchReferences'
<1>1. fetch' \in [Fetch -> FetchType]
    BY DEF IInv, TypeOK
<1>2. ASSUME NEW g \in Fetch
      PROVE  Counted(fetch'[g])
    BY DEF IInv, TypeOK, FetchReferences, Counted
<1>3. FetchReferences'
    BY <1>2 DEF FetchReferences, Counted, Live, HeldByCallback
<1> QED BY <1>1, <1>3

\* fetch(), setTimeout, setInterval and their clear functions.
LEMMA TimersAndFetchesKeepIInv ==
    ASSUME IInv, fault = "none",
           \/ \E f \in Fetch : GlobalFetch(f)
           \/ \E t \in Timer, repeat \in Repeat : SetTimer(t, repeat)
           \/ \E t \in Timer : KillTimer(t)
    PROVE  IInv'
<1>1. /\ turn.req \in Request
      /\ Live(turn.req)
      /\ CurrentScope = turn.req
    BY CurrentScopeIsTurn DEF GlobalFetch, SetTimer, KillTimer
<1>2. ASSUME NEW f \in Fetch, GlobalFetch(f)
      PROVE  IInv'
  <2> DEFINE x == NewFetch(turn.req)
  <2>1. x \in FetchType /\ Counted(x) /\ x.state = "created"
    BY <1>1 DEF NewFetch, FetchType, FetchState, Counted, HeldByCallback, Live
  <2>2. /\ fetch' = [fetch EXCEPT ![f] = x]
        /\ UNCHANGED <<pool, ctx, scope, timer, promise, turn, wire, fault>>
    BY <1>1, <1>2 DEF GlobalFetch
  <2> HIDE DEF x
  <2>3. fetch' \in [Fetch -> FetchType] /\ FetchReferences'
    BY <2>1, <2>2, OneFetchCounted
  <2>4. \A g \in Fetch : fetch'[g].state = "running" /\ fault = "none" =>
            turn'.kind = "fetch" /\ fetch'[g].scope = turn'.req
    BY <2>1, <2>2 DEF IInv, TypeOK, CallbacksConsistent
  <2>5. timer' \in [Timer -> TimerType] /\ TimersDieWithScope'
    BY <2>2 DEF IInv, TypeOK, TimersDieWithScope, Live
  <2> QED BY <2>2, <2>3, <2>4, <2>5, CallKeepsIInv
<1>3. ASSUME \/ \E t \in Timer, repeat \in Repeat : SetTimer(t, repeat)
             \/ \E t \in Timer : KillTimer(t)
      PROVE  IInv'
  <2>1. PICK t \in Timer, x \in TimerType :
            /\ timer' = [timer EXCEPT ![t] = x]
            /\ x.state = "armed" => x.scope = turn.req
    <3>1. ASSUME NEW t \in Timer, NEW repeat \in Repeat, SetTimer(t, repeat)
          PROVE  /\ [state |-> "armed", scope |-> turn.req, repeat |-> repeat]
                        \in TimerType
                 /\ timer' = [timer EXCEPT ![t] =
                        [state |-> "armed", scope |-> turn.req, repeat |-> repeat]]
      BY <1>1, <3>1, RepeatAssumption DEF SetTimer, NewTimer, TimerType
    <3>2. ASSUME NEW t \in Timer, KillTimer(t)
          PROVE  /\ [timer[t] EXCEPT !.state = "stopped"] \in TimerType
                 /\ timer' = [timer EXCEPT ![t] =
                        [timer[t] EXCEPT !.state = "stopped"]]
                 /\ [timer[t] EXCEPT !.state = "stopped"].state # "armed"
      BY <3>2 DEF KillTimer, TimerType, IInv, TypeOK
    <3> QED BY <1>3, <3>1, <3>2
  <2>2. UNCHANGED <<pool, ctx, scope, fetch, promise, turn, wire, fault>>
    BY <1>3 DEF SetTimer, NewTimer, KillTimer
  <2>3. timer' \in [Timer -> TimerType] /\ TimersDieWithScope'
    BY <1>1, <2>1, <2>2 DEF IInv, TypeOK, TimersDieWithScope, Live
  <2>4. fetch' \in [Fetch -> FetchType] /\ FetchReferences'
    BY <2>2 DEF IInv, TypeOK, FetchReferences, Live
  <2>5. \A g \in Fetch : fetch'[g].state = "running" /\ fault = "none" =>
            turn'.kind = "fetch" /\ fetch'[g].scope = turn'.req
    BY <2>2 DEF IInv, CallbacksConsistent
  <2> QED BY <2>2, <2>3, <2>4, <2>5, CallKeepsIInv
<1> QED BY <1>2, <1>3

\* The client's thread answers.
LEMMA ClientKeepsIInv ==
    ASSUME IInv, NEW f \in Fetch, SendAsyncDone(f) \/ SendAsyncFailed(f)
    PROVE  IInv'
<1> DEFINE x == fetch'[f]
<1>1. /\ fetch[f].state = "sent"
      /\ fetch' = [fetch EXCEPT ![f] = x]
      /\ x \in {Answered(fetch[f]), Unanswered(fetch[f])}
      /\ UNCHANGED <<pool, ctx, scope, timer, promise, turn, wire, fault>>
    BY DEF SendAsyncDone, SendAsyncFailed, IInv, TypeOK
<1>2. /\ fetch[f] \in FetchType
      /\ Counted(fetch[f])
    BY DEF IInv, TypeOK, FetchReferences, Counted
<1>3. x \in FetchType /\ Counted(x) /\ x.state # "running"
    BY <1>1, <1>2
    DEF Answered, Unanswered, FetchType, FetchState, Counted, HeldByCallback
<1> HIDE DEF x
<1>4. fetch' \in [Fetch -> FetchType] /\ FetchReferences'
    BY <1>1, <1>3, OneFetchCounted
<1>5. \A g \in Fetch : fetch'[g].state = "running" /\ fault = "none" =>
          turn'.kind = "fetch" /\ fetch'[g].scope = turn'.req
    BY <1>1, <1>3 DEF IInv, TypeOK, CallbacksConsistent
<1>6. timer' \in [Timer -> TimerType] /\ TimersDieWithScope'
    BY <1>1 DEF IInv, TypeOK, TimersDieWithScope, Live
<1> QED BY <1>1, <1>4, <1>5, <1>6, CallKeepsIInv

-----------------------------------------------------------------------------
(* The beginnings of the callbacks.                                        *)

\* A timer fires: its scope lives.
LEMMA TimerExecuteKeepsIInv ==
    ASSUME IInv, NEW t \in Timer, TimerExecute(t)
    PROVE  IInv'
<1> DEFINE r == timer[t].scope
<1>1. /\ turn.kind = "idle"
      /\ timer[t].state = "armed"
      /\ UNCHANGED <<pool, ctx, scope, fetch, promise, wire>>
    BY DEF TimerExecute
<1>2. r \in Request /\ Live(r)
    BY <1>1 DEF IInv, TimersDieWithScope
<1>3. /\ turn' = NewTurn("timer", r, 0)
      /\ timer' = timer \/ timer' = [timer EXCEPT ![t].state = "stopped"]
      /\ UNCHANGED fault
    BY <1>2 DEF TimerExecute, Live
<1>4. turn' \in TurnType /\ turn'.kind = "timer" /\ turn'.req = r
    BY <1>2, <1>3, ListenerAssumption DEF NewTurn, TurnType
<1>5. timer' \in [Timer -> TimerType]
    BY <1>3 DEF IInv, TypeOK, TimerType
<1>6. TimersDieWithScope'
    BY <1>1, <1>3 DEF IInv, TypeOK, TimerType, TimersDieWithScope, Live
<1>7. fetch' \in [Fetch -> FetchType] /\ FetchReferences'
    BY <1>1 DEF IInv, TypeOK, FetchReferences, Live
<1>8. \A g \in Fetch : fetch'[g].state = "running" /\ fault = "none" =>
          turn'.kind = "fetch" /\ fetch'[g].scope = turn'.req
    BY <1>1 DEF IInv, CallbacksConsistent
<1> HIDE DEF r
<1> QED BY <1>1, <1>2, <1>3, <1>4, <1>5, <1>6, <1>7, <1>8, CallKeepsIInv

\* fulfill_promise begins, or finds its scope deleted.
LEMMA FulfillPromiseKeepsIInv ==
    ASSUME IInv, fault = "none", NEW f \in Fetch, FulfillPromise(f)
    PROVE  IInv'
<1> DEFINE r == fetch[f].scope
<1>1. /\ turn.kind = "idle"
      /\ fetch[f].state = "queued"
      /\ UNCHANGED <<pool, ctx, scope, timer, promise, wire>>
    BY DEF FulfillPromise
<1>2. /\ fetch[f] \in FetchType
      /\ Counted(fetch[f])
      /\ r \in Request
      /\ scope[r].life # "none"
    BY <1>1 DEF IInv, TypeOK, FetchReferences, Counted
<1>3. CASE scope[r].life = "dead"
  <2>1. fault' = "use_after_free" /\ UNCHANGED <<fetch, turn>>
    BY <1>3 DEF FulfillPromise
  <2> QED BY <1>1, <2>1
      DEF IInv, TypeOK, CallbacksConsistent, ContextOwnership, FetchReferences,
          TimersDieWithScope, Live, Pooled, Held
<1>4. CASE scope[r].life # "dead"
  <2> DEFINE x == Started(fetch[f])
  <2>1. Live(r)
    <3>1. scope[r].life \in {"none", "live", "dead"}
      BY <1>2 DEF IInv, TypeOK, ScopeType
    <3> QED BY <1>2, <1>4, <3>1 DEF Live
  <2>2. /\ turn' = NewTurn("fetch", r, 0)
        /\ fetch' = [fetch EXCEPT ![f] = x]
        /\ UNCHANGED fault
    BY <1>4 DEF FulfillPromise
  <2>3. turn' \in TurnType /\ turn'.kind = "fetch" /\ turn'.req = r
    BY <1>2, <2>2, ListenerAssumption DEF NewTurn, TurnType
  <2>4. x \in FetchType /\ Counted(x) /\ x.scope = r
    BY <1>1, <1>2 DEF Started, FetchType, FetchState, Counted, HeldByCallback
  <2> HIDE DEF x
  <2>5. fetch' \in [Fetch -> FetchType] /\ FetchReferences'
    BY <1>1, <2>2, <2>4, OneFetchCounted
  <2>6. \A g \in Fetch : fetch'[g].state = "running" /\ fault = "none" =>
            turn'.kind = "fetch" /\ fetch'[g].scope = turn'.req
    BY <1>1, <2>2, <2>3, <2>4 DEF IInv, TypeOK, CallbacksConsistent
  <2>7. timer' \in [Timer -> TimerType] /\ TimersDieWithScope'
    BY <1>1 DEF IInv, TypeOK, TimersDieWithScope, Live
  <2> HIDE DEF r
  <2> QED BY <1>1, <1>2, <2>1, <2>2, <2>3, <2>5, <2>6, <2>7, CallKeepsIInv
<1> QED BY <1>3, <1>4

\* What get_context gives is a good record of a context nobody holds, and that
\* is not in the queue any more.
LEMMA GetContextFacts ==
    ASSUME IInv, NEW c \in Context, NEW x \in FreshContexts \cup {ctx[c]},
           GetContext(c, x)
    PROVE  /\ x \in ContextType
           /\ x.state = "ready"
           /\ ~Held(c)
           /\ pool' \in Seq(Context)
           /\ \A i, j \in DOMAIN pool' : pool'[i] = pool'[j] => i = j
           /\ \A d \in Context : Pooled(d)' <=> Pooled(d) /\ d # c
<1>1. /\ pool \in Seq(Context)
      /\ ctx[c] \in ContextType
      /\ \A i, j \in DOMAIN pool : pool[i] = pool[j] => i = j
      /\ \A d \in Context : Pooled(d) => ctx[d].state = "ready" /\ ~Held(d)
    BY DEF IInv, TypeOK, ContextOwnership
<1>2. CASE pool # <<>> /\ c = Head(pool) /\ x = ctx[c] /\ pool' = Tail(pool)
  <2>1. /\ Len(pool) \in Nat /\ Len(pool) > 0
        /\ DOMAIN pool = 1 .. Len(pool)
        /\ c = pool[1]
    BY <1>1, <1>2
  <2>2. /\ pool' \in Seq(Context)
        /\ DOMAIN pool' = 1 .. (Len(pool) - 1)
        /\ \A i \in DOMAIN pool' : pool'[i] = pool[i + 1]
    BY <1>1, <1>2, <2>1
  <2>3. Pooled(c)
    BY <2>1 DEF Pooled
  <2>4. \A i, j \in DOMAIN pool' : pool'[i] = pool'[j] => i = j
    BY <1>1, <2>1, <2>2
  <2>5. ASSUME NEW d \in Context
        PROVE  Pooled(d)' <=> Pooled(d) /\ d # c
    <3>1. ASSUME NEW i \in DOMAIN pool', pool'[i] = d
          PROVE  Pooled(d) /\ d # c
      <4>1. i + 1 \in DOMAIN pool /\ pool[i + 1] = d /\ i + 1 # 1
        BY <2>1, <2>2, <3>1
      <4> QED BY <1>1, <2>1, <4>1 DEF Pooled
    <3>2. ASSUME NEW i \in DOMAIN pool, pool[i] = d, d # c
          PROVE  Pooled(d)'
      <4>1. i - 1 \in DOMAIN pool' /\ pool'[i - 1] = d
        BY <2>1, <2>2, <3>2
      <4> QED BY <4>1 DEF Pooled
    <3> QED BY <3>1, <3>2 DEF Pooled
  <2> QED BY <1>1, <1>2, <2>2, <2>3, <2>4, <2>5
<1>3. CASE /\ pool = <<>> /\ ctx[c].state = "unused" /\ x \in FreshContexts
           /\ UNCHANGED pool
  <2>1. x \in ContextType /\ x.state = "ready"
    BY <1>3, ListenerAssumption DEF FreshContexts, MakeContext, ContextType
  <2>2. ~Held(c)
    BY <1>3 DEF IInv, ContextOwnership, Held
  <2>3. \A d \in Context : ~Pooled(d) /\ ~Pooled(d)'
    BY <1>3 DEF Pooled
  <2> QED BY <1>1, <1>3, <2>1, <2>2, <2>3
<1> QED BY <1>2, <1>3 DEF GetContext

\* A request arrives.
LEMMA HandleHttpRequestKeepsIInv ==
    ASSUME IInv, NEW r \in Request, HandleHttpRequest(r)
    PROVE  IInv'
<1>0. PICK c \in Context : \E x \in FreshContexts \cup {ctx[c]} :
          /\ GetContext(c, x)
          /\ ctx' = [ctx EXCEPT ![c] = [x EXCEPT !.scope = r]]
          /\ scope' = [scope EXCEPT ![r] = NewScope(c)]
          /\ turn' = IF x.listeners = 0 THEN NewTurn("respond", r, 0)
                     ELSE NewTurn("listener", r, 1)
    BY DEF HandleHttpRequest
<1>1. PICK x \in FreshContexts \cup {ctx[c]} :
          /\ GetContext(c, x)
          /\ ctx' = [ctx EXCEPT ![c] = [x EXCEPT !.scope = r]]
          /\ scope' = [scope EXCEPT ![r] = NewScope(c)]
          /\ turn' = IF x.listeners = 0 THEN NewTurn("respond", r, 0)
                     ELSE NewTurn("listener", r, 1)
    BY <1>0
<1>2. /\ turn.kind = "idle"
      /\ scope[r].life = "none"
      /\ UNCHANGED <<fetch, timer, promise, wire, fault>>
    BY DEF HandleHttpRequest
<1>3. /\ x \in ContextType
      /\ x.state = "ready"
      /\ ~Held(c)
      /\ pool' \in Seq(Context)
      /\ \A i, j \in DOMAIN pool' : pool'[i] = pool'[j] => i = j
      /\ \A d \in Context : Pooled(d)' <=> Pooled(d) /\ d # c
    BY <1>1, GetContextFacts
<1> DEFINE y == [x EXCEPT !.scope = r]
<1>4. /\ y \in ContextType
      /\ y.state = "ready" /\ y.scope = r /\ y.listeners = x.listeners
    BY <1>3 DEF ContextType
<1>5. /\ ctx' \in [Context -> ContextType]
      /\ ctx'[c] = y
      /\ \A d \in Context : d # c => ctx'[d] = ctx[d]
    BY <1>1, <1>4 DEF IInv, TypeOK
<1> HIDE DEF y
<1>6. /\ NewScope(c) \in ScopeType
      /\ NewScope(c).life = "live" /\ NewScope(c).context = c
      /\ NewScope(c).runtime = None
    BY DEF NewScope, ScopeWith, ScopeType
<1>7. /\ scope' \in [Request -> ScopeType]
      /\ scope'[r] = NewScope(c)
      /\ \A q \in Request : q # r => scope'[q] = scope[q]
    BY <1>1, <1>6 DEF IInv, TypeOK
<1>8. \A q \in Request : Live(q)' <=> (Live(q) \/ q = r)
    BY <1>6, <1>7 DEF Live
<1>9. /\ turn' \in TurnType /\ turn'.req = r
      /\ turn'.kind \in {"listener", "respond"}
      /\ turn'.kind = "listener" => turn'.listener = 1 /\ x.listeners # 0
    BY <1>1, ListenerAssumption DEF NewTurn, TurnType
<1>10. TypeOK'
    BY <1>2, <1>3, <1>5, <1>7, <1>9 DEF IInv, TypeOK
<1>11. CallbacksConsistent'
  <2>1. turn'.kind = "listener" =>
            turn'.listener \in 1 .. ctx'[scope'[turn'.req].context].listeners
    BY <1>3, <1>4, <1>5, <1>6, <1>7, <1>9 DEF ContextType
  <2>2. ASSUME NEW q \in Request, Live(q)'
        PROVE  scope'[q].runtime =
                  IF turn'.kind \in {"listener", "respond"} /\ turn'.req = q
                  THEN None ELSE scope'[q].context
    BY <1>2, <1>6, <1>7, <1>8, <1>9, <2>2 DEF IInv, CallbacksConsistent
  <2>3. \A f \in Fetch : ~(fetch'[f].state = "running" /\ fault' = "none")
    BY <1>2 DEF IInv, CallbacksConsistent
  <2> QED BY <1>8, <1>9, <2>1, <2>2, <2>3 DEF CallbacksConsistent
<1>12. ContextOwnership'
  <2>1. \A q \in Request : Live(q) => scope[q].context # c /\ q # r
    BY <1>2, <1>3 DEF Held, Live
  <2>2. \A d \in Context : Held(d)' <=> Held(d) \/ d = c
    BY <1>6, <1>7, <1>8, <2>1 DEF Held
  <2>3. ASSUME NEW d \in Context, Pooled(d)'
        PROVE  ctx'[d].state = "ready" /\ ~ctx'[d].error /\ ~Held(d)'
    BY <1>3, <1>5, <2>2, <2>3 DEF IInv, ContextOwnership
  <2>4. ASSUME NEW q \in Request, Live(q)'
        PROVE  /\ scope'[q].context \in Context
               /\ ctx'[scope'[q].context].state = "ready"
               /\ ctx'[scope'[q].context].scope = q
    BY <1>4, <1>5, <1>6, <1>7, <1>8, <2>1, <2>4 DEF IInv, ContextOwnership
  <2>5. ASSUME NEW d \in Context, ctx'[d].state = "ready"
        PROVE  Pooled(d)' \/ Held(d)'
    BY <1>3, <1>5, <2>2, <2>5 DEF IInv, ContextOwnership
  <2> QED BY <1>3, <2>3, <2>4, <2>5 DEF ContextOwnership
<1>13. FetchReferences'
  <2>1. ASSUME NEW f \in Fetch, fetch[f].state # "unused"
        PROVE  /\ fetch[f].scope \in Request
               /\ fetch[f].scope # r
    BY <1>2, <2>1 DEF IInv, FetchReferences
  <2> QED BY <1>2, <1>7, <1>8, <2>1 DEF IInv, FetchReferences
<1>14. TimersDieWithScope'
    BY <1>2, <1>8 DEF IInv, TimersDieWithScope
<1> QED BY <1>10, <1>11, <1>12, <1>13, <1>14 DEF IInv

-----------------------------------------------------------------------------
(* The ends of the callbacks.                                              *)

\* The count of one fetch when it is sent, and when fulfill_promise returns.
LEMMA OneFetchStep ==
    ASSUME NEW x \in FetchType, Counted(x)
    PROVE  /\ x.state = "created" =>
                 /\ DoRequest(x) \in FetchType
                 /\ DoRequest(x).state = "sent"
                 /\ Counted(DoRequest(x))
           /\ x.state = "running" =>
                 /\ Finished(x) \in FetchType
                 /\ Finished(x).state = "done"
                 /\ Counted(Finished(x))
<1>1. ASSUME x.state = "created"
      PROVE  /\ DoRequest(x) \in FetchType
             /\ DoRequest(x).state = "sent"
             /\ Counted(DoRequest(x))
  <2> DEFINE y == DoRequest(x)
  <2>1. /\ y \in FetchType
        /\ y.state = "sent" /\ y.scope = x.scope /\ y.refs = x.refs + 1
    <3> DEFINE z == Retain(x)
    <3>1. z \in FetchType /\ z.scope = x.scope /\ z.refs = x.refs + 1
      BY DEF Retain, FetchType
    <3>2. y = [z EXCEPT !.state = "sent"]
      BY <1>1 DEF DoRequest
    <3> HIDE DEF y, z
    <3> QED BY <3>1, <3>2 DEF FetchType, FetchState
  <2>2. x.refs \in Int
    BY DEF FetchType
  <2> HIDE DEF y
  <2>3. Counted(y)
    BY <1>1, <2>1, <2>2 DEF Counted, HeldByCallback
  <2> QED BY <2>1, <2>3 DEF y
<1>2. ASSUME x.state = "running"
      PROVE  /\ Finished(x) \in FetchType
             /\ Finished(x).state = "done"
             /\ Counted(Finished(x))
  <2> DEFINE y == Finished(x)
  <2>1. /\ y \in FetchType
        /\ y.state = "done" /\ y.scope = x.scope /\ y.refs = x.refs - 1
    <3> DEFINE z == Release(x)
    <3>1. z \in FetchType /\ z.scope = x.scope /\ z.refs = x.refs - 1
      BY DEF Release, FetchType
    <3>2. y = [z EXCEPT !.state = "done"]
      BY DEF Finished
    <3> HIDE DEF y, z
    <3> QED BY <3>1, <3>2 DEF FetchType, FetchState
  <2>2. x.refs \in Int
    BY DEF FetchType
  <2> HIDE DEF y
  <2>3. Counted(y)
    BY <1>2, <2>1, <2>2 DEF Counted, HeldByCallback
  <2> QED BY <2>1, <2>3 DEF y
<1> QED BY <1>1, <1>2

\* do_fetch_requests retains what it sends, the return of fulfill_promise
\* releases it.
LEMMA FetchLoopsCounted ==
    ASSUME IInv, NEW r \in Request, NEW fin,
           fin = {} \/ fin = {f \in Fetch : fetch[f].state = "running"}
    PROVE  LET fs == DoFetchRequests(fetch, r)
               gs == FinishFetches(fs, fin)
           IN  /\ fs \in [Fetch -> FetchType]
               /\ gs \in [Fetch -> FetchType]
               /\ \A f \in Fetch : /\ Counted(fs[f])
                                   /\ Counted(gs[f])
                                   /\ gs[f].state = "running" =>
                                        fetch[f].state = "running" /\ f \notin fin
<1> DEFINE fs == DoFetchRequests(fetch, r)
           gs == FinishFetches(fs, fin)
<1>1. ASSUME NEW f \in Fetch
      PROVE  /\ fs[f] \in FetchType
             /\ Counted(fs[f])
             /\ fs[f].state = "running" <=> fetch[f].state = "running"
  <2>1. fetch[f] \in FetchType /\ Counted(fetch[f])
    BY <1>1 DEF IInv, TypeOK, FetchReferences, Counted
  <2>2. fs[f] = fetch[f] \/ (fetch[f].state = "created" /\ fs[f] = DoRequest(fetch[f]))
    BY <1>1 DEF DoFetchRequests, DoRequest
  <2>3. fetch[f].state = "created" =>
            /\ DoRequest(fetch[f]) \in FetchType
            /\ Counted(DoRequest(fetch[f]))
            /\ DoRequest(fetch[f]).state = "sent"
    BY <2>1, OneFetchStep
  <2> QED BY <2>1, <2>2, <2>3
<1>2. fs \in [Fetch -> FetchType]
    BY <1>1 DEF DoFetchRequests
<1> HIDE DEF fs
<1>3. ASSUME NEW f \in Fetch
      PROVE  /\ gs[f] \in FetchType
             /\ Counted(gs[f])
             /\ gs[f].state = "running" => fetch[f].state = "running" /\ f \notin fin
  <2>1. CASE f \in fin
    <3>1. gs[f] = Finished(fs[f]) /\ fs[f].state = "running"
      BY <1>1, <2>1 DEF FinishFetches
    <3>2. fs[f] \in FetchType /\ Counted(fs[f])
      BY <1>1
    <3>3. gs[f] \in FetchType /\ Counted(gs[f]) /\ gs[f].state = "done"
      BY <3>1, <3>2, OneFetchStep
    <3> QED BY <3>3
  <2>2. CASE f \notin fin
    BY <1>1, <2>2 DEF FinishFetches
  <2> QED BY <2>1, <2>2
<1>4. gs \in [Fetch -> FetchType]
    BY <1>3 DEF FinishFetches
<1> QED BY <1>1, <1>2, <1>3, <1>4 DEF fs

\* The scope of the turn goes on waiting.
LEMMA KeepKeepsIInv ==
    ASSUME IInv,
           NEW r \in Request, Live(r), turn.kind # "idle", turn.req = r,
           NEW s \in ScopeType, s.life = "live",
           s.context = scope[r].context, s.runtime = scope[r].context,
           NEW fs \in [Fetch -> FetchType],
           \A f \in Fetch : Counted(fs[f]),
           \A f \in Fetch : fs[f].state = "running" => fault' # "none",
           Keep(r, s, fs),
           turn' = Idle,
           UNCHANGED promise,
           wire' \in [Request -> Seq(Request)],
           fault' \in {"none", "use_after_free", "bad_cast"}
    PROVE  IInv'
<1>1. /\ scope' = [scope EXCEPT ![r] = s]
      /\ fetch' = fs
      /\ UNCHANGED <<pool, ctx, timer>>
    BY DEF Keep
<1>2. /\ scope' \in [Request -> ScopeType]
      /\ scope'[r] = s
      /\ \A q \in Request : q # r => scope'[q] = scope[q]
    BY <1>1 DEF IInv, TypeOK
<1>3. \A q \in Request : /\ Live(q)' <=> Live(q)
                         /\ scope'[q].life = scope[q].life
                         /\ scope'[q].context = scope[q].context
    BY <1>2 DEF Live
<1>4. turn' \in TurnType /\ turn'.kind = "idle"
    BY ListenerAssumption DEF Idle, NewTurn, TurnType
<1>5. TypeOK'
    BY <1>1, <1>2, <1>4 DEF IInv, TypeOK
<1>6. CallbacksConsistent'
  <2>1. \A q \in Request : Live(q) /\ q # r => scope[q].runtime = scope[q].context
    BY DEF IInv, CallbacksConsistent
  <2>2. \A q \in Request : Live(q)' => scope'[q].runtime = scope'[q].context
    BY <1>2, <1>3, <2>1
  <2> QED BY <1>1, <1>4, <2>2 DEF CallbacksConsistent
<1>7. ContextOwnership'
  <2>1. \A c \in Context : /\ Pooled(c)' <=> Pooled(c)
                           /\ Held(c)' <=> Held(c)
    BY <1>1, <1>3 DEF Pooled, Held
  <2> QED BY <1>1, <1>3, <2>1 DEF IInv, ContextOwnership
<1>8. FetchReferences'
    BY <1>1, <1>3 DEF FetchReferences, Counted
<1>9. TimersDieWithScope'
    BY <1>1, <1>3 DEF IInv, TimersDieWithScope
<1> QED BY <1>5, <1>6, <1>7, <1>8, <1>9 DEF IInv

\* Recycling the context of the scope that ends puts it back in the queue
\* once, or deletes it.
LEMMA RecycleFacts ==
    ASSUME IInv, NEW c \in Context, Held(c), Recycle(c)
    PROVE  /\ pool' \in Seq(Context)
           /\ ctx' \in [Context -> ContextType]
           /\ \A i, j \in DOMAIN pool' : pool'[i] = pool'[j] => i = j
           /\ \A d \in Context : d # c => /\ ctx'[d] = ctx[d]
                                          /\ Pooled(d)' <=> Pooled(d)
           /\ ctx[c].error => ctx'[c].state = "deleted" /\ ~Pooled(c)'
           /\ ~ctx[c].error => ctx'[c] = ctx[c] /\ Pooled(c)'
           /\ ctx'[c].error = ctx[c].error
<1>1. /\ pool \in Seq(Context)
      /\ ctx \in [Context -> ContextType]
      /\ \A i, j \in DOMAIN pool : pool[i] = pool[j] => i = j
      /\ ~Pooled(c)
    BY DEF IInv, TypeOK, ContextOwnership
<1>2. CASE ctx[c].error
  <2>1. ctx' = [ctx EXCEPT ![c].state = "deleted"] /\ pool' = pool
    BY <1>2 DEF Recycle
  <2> DEFINE x == [ctx[c] EXCEPT !.state = "deleted"]
  <2>2. x \in ContextType /\ x.state = "deleted" /\ x.error = ctx[c].error
    BY <1>1 DEF ContextType
  <2>3. ctx' = [ctx EXCEPT ![c] = x]
    BY <2>1
  <2> HIDE DEF x
  <2> QED BY <1>1, <1>2, <2>1, <2>2, <2>3 DEF Pooled
<1>3. CASE ~ctx[c].error
  <2>1. ctx' = ctx /\ pool' = Append(pool, c)
    BY <1>3 DEF Recycle
  <2>2. /\ Len(pool) \in Nat
        /\ pool' \in Seq(Context)
        /\ DOMAIN pool = 1 .. Len(pool)
        /\ DOMAIN pool' = 1 .. (Len(pool) + 1)
        /\ pool'[Len(pool) + 1] = c
        /\ \A i \in DOMAIN pool : pool'[i] = pool[i]
    BY <1>1, <2>1
  <2>3. \A i, j \in DOMAIN pool' : pool'[i] = pool'[j] => i = j
    BY <1>1, <2>2 DEF Pooled
  <2>4. \A d \in Context : d # c => (Pooled(d)' <=> Pooled(d))
    BY <2>2 DEF Pooled
  <2>5. Pooled(c)'
    BY <2>2 DEF Pooled
  <2> QED BY <1>1, <1>3, <2>1, <2>2, <2>3, <2>4, <2>5
<1> QED BY <1>2, <1>3

\* The scope of the turn is deleted, and its context recycled.
LEMMA DestroyKeepsIInv ==
    ASSUME IInv,
           NEW r \in Request, Live(r), turn.kind # "idle", turn.req = r,
           NEW s \in ScopeType,
           NEW fs \in [Fetch -> FetchType],
           \A f \in Fetch : Counted(fs[f]),
           \A f \in Fetch : fs[f].state # "running",
           NEW c \in Context, c = scope[r].context,
           Destroy(r, s, fs, c),
           turn' = Idle,
           UNCHANGED <<promise, fault>>,
           wire' \in [Request -> Seq(Request)]
    PROVE  IInv'
<1>1. c \in Context /\ ctx[c].state = "ready" /\ ctx[c].scope = r /\ Held(c)
    BY DEF IInv, ContextOwnership, Held
<1>2. /\ scope' = [scope EXCEPT ![r] = DeadScope(s)]
      /\ fetch' = TerminateFetches(fs, r)
      /\ timer' = FreeTimers(timer, r)
      /\ Recycle(c)
    BY <1>1, NoneAssumption DEF Destroy
<1>3. /\ pool' \in Seq(Context)
      /\ ctx' \in [Context -> ContextType]
      /\ \A i, j \in DOMAIN pool' : pool'[i] = pool'[j] => i = j
      /\ \A d \in Context : d # c => /\ ctx'[d] = ctx[d]
                                     /\ Pooled(d)' <=> Pooled(d)
      /\ ctx[c].error => ctx'[c].state = "deleted" /\ ~Pooled(c)'
      /\ ~ctx[c].error => ctx'[c] = ctx[c] /\ Pooled(c)'
      /\ ctx'[c].error = ctx[c].error
    BY <1>1, <1>2, RecycleFacts
<1>4. DeadScope(s) \in ScopeType /\ DeadScope(s).life = "dead"
  <2>1. NoScope \in ScopeType
    BY DEF NoScope, ScopeWith, ScopeType
  <2> QED BY <2>1 DEF DeadScope, ScopeType
<1>5. /\ scope' \in [Request -> ScopeType]
      /\ scope'[r].life = "dead"
      /\ \A q \in Request : q # r => scope'[q] = scope[q]
    BY <1>2, <1>4 DEF IInv, TypeOK
<1>6. \A q \in Request : Live(q)' <=> Live(q) /\ q # r
    BY <1>5 DEF Live
<1>7. \A q \in Request : Live(q)' => scope[q].context \in Context \ {c}
    BY <1>1, <1>6 DEF IInv, ContextOwnership
<1>8. turn' \in TurnType /\ turn'.kind = "idle"
    BY ListenerAssumption DEF Idle, NewTurn, TurnType
<1>9. ASSUME NEW f \in Fetch
      PROVE  /\ fetch'[f] \in FetchType
             /\ Counted(fetch[f])'
             /\ fetch'[f].state # "running"
  <2>1. fs[f] \in FetchType /\ Counted(fs[f]) /\ fs[f].state # "running"
    OBVIOUS
  <2>2. CASE fs[f].scope = r
    <3> DEFINE z == fetch'[f]
    <3>1. z = Release(fs[f])
      BY <1>2, <2>2 DEF TerminateFetches
    <3>2. /\ z \in FetchType /\ z.state = fs[f].state /\ z.scope = r
          /\ z.refs = fs[f].refs - 1 /\ fs[f].refs \in Int
      BY <2>1, <2>2, <3>1 DEF Release, FetchType
    <3>3. fs[f].state # "unused"
      BY <2>1, <2>2, NoneAssumption DEF Counted, NoFetch
    <3> HIDE DEF z
    <3>4. fs[f].refs = 1 + (IF HeldByCallback(fs[f]) THEN 1 ELSE 0)
      BY <2>1, <2>2, <3>3 DEF Counted
    <3>5. z.refs = (IF Live(r)' THEN 1 ELSE 0) + (IF HeldByCallback(z) THEN 1 ELSE 0)
      BY <1>6, <3>2, <3>4 DEF HeldByCallback
    <3> QED BY <1>5, <2>1, <3>2, <3>3, <3>5 DEF Counted, z
  <2>3. CASE fs[f].scope # r
    <3>1. fetch'[f] = fs[f]
      BY <1>2, <2>3 DEF TerminateFetches
    <3>2. Counted(fetch[f])'
      BY <1>5, <1>6, <2>1, <2>3, <3>1 DEF Counted, HeldByCallback
    <3> QED BY <2>1, <3>1, <3>2
  <2> QED BY <2>2, <2>3
<1>10. fetch' \in [Fetch -> FetchType]
    BY <1>2, <1>9 DEF TerminateFetches
<1>11. ASSUME NEW t \in Timer
       PROVE  /\ timer'[t] \in TimerType
              /\ timer'[t].state = "armed" => timer'[t] = timer[t] /\ timer[t].scope # r
    BY <1>2 DEF FreeTimers, TimerType, IInv, TypeOK
<1>12. timer' \in [Timer -> TimerType]
    BY <1>2, <1>11 DEF FreeTimers
<1>13. TypeOK'
    BY <1>3, <1>5, <1>8, <1>10, <1>12 DEF IInv, TypeOK
<1>14. CallbacksConsistent'
  <2>1. \A q \in Request : Live(q) /\ q # r => scope[q].runtime = scope[q].context
    BY DEF IInv, CallbacksConsistent
  <2> QED BY <1>5, <1>6, <1>8, <1>9, <2>1 DEF CallbacksConsistent
<1>15. ContextOwnership'
  <2>1. \A d \in Context : Held(d)' <=> Held(d) /\ d # c
    BY <1>5, <1>6, <1>7 DEF Held
  <2>2. ASSUME NEW d \in Context, Pooled(d)'
        PROVE  ctx'[d].state = "ready" /\ ~ctx'[d].error /\ ~Held(d)'
    BY <1>1, <1>3, <2>1, <2>2 DEF IInv, ContextOwnership
  <2>3. ASSUME NEW q \in Request, Live(q)'
        PROVE  /\ scope'[q].context \in Context
               /\ ctx'[scope'[q].context].state = "ready"
               /\ ctx'[scope'[q].context].scope = q
    BY <1>3, <1>5, <1>6, <1>7, <2>3 DEF IInv, ContextOwnership
  <2>4. ASSUME NEW d \in Context, ctx'[d].state = "ready"
        PROVE  Pooled(d)' \/ Held(d)'
    <3>1. CASE d = c
      BY <1>3, <2>4, <3>1
    <3>2. CASE d # c
      BY <1>3, <2>1, <2>4, <3>2 DEF IInv, ContextOwnership
    <3> QED BY <3>1, <3>2
  <2> QED BY <1>3, <2>2, <2>3, <2>4 DEF ContextOwnership
<1>16. FetchReferences'
    BY <1>9 DEF FetchReferences, Counted
<1>17. TimersDieWithScope'
    BY <1>6, <1>11 DEF IInv, TimersDieWithScope
<1> QED BY <1>13, <1>14, <1>15, <1>16, <1>17 DEF IInv

\* handle_response changes what is sent, not what is held.
LEMMA HandleResponseHold ==
    ASSUME NEW s \in ScopeType
    PROVE  HandleResponse(s) \in ScopeType /\ SameHold(s, HandleResponse(s))
BY DEF HandleResponse, ScopeType, SameHold

\* handle_waitings: the scope of the turn waits on, is deleted, or the loop
\* ends in a fault.
LEMMA HandleWaitingsKeepsIInv ==
    ASSUME IInv,
           NEW r \in Request, Live(r), turn.kind # "idle", turn.req = r,
           NEW s \in ScopeType, s.life = "live",
           s.context = scope[r].context, s.runtime = scope[r].context,
           NEW said \in Seq(Request),
           NEW fin, fin = {f \in Fetch : fetch[f].state = "running"},
           HandleWaitings(r, s, said, fin),
           turn' = Idle,
           UNCHANGED promise
    PROVE  IInv'
<1> DEFINE sentAll == DoFetchRequests(fetch, r)
           left == FinishFetches(sentAll, fin)
           saved == Promised(s)
           took == IF saved = None THEN s ELSE [s EXCEPT !.response = saved[1]]
           handles == saved # None \/ s.error
           after == IF handles THEN HandleResponse(took) ELSE s
           c == s.runtime
<1>1. c \in Context /\ c = scope[r].context
    BY DEF IInv, ContextOwnership
<1>2. saved = None \/ saved \in Request \X Name
  <2>1. ctx[c].promise \in (Request \X Name) \cup {None}
    BY <1>1 DEF IInv, TypeOK, ContextType
  <2> QED BY <2>1 DEF Promised
<1>3. took \in ScopeType /\ SameHold(s, took)
  <2> HIDE DEF saved
  <2>1. saved # None => saved[1] \in Request
    BY <1>2
  <2> QED BY <2>1 DEF ScopeType, SameHold
<1>4. after \in ScopeType /\ after.life = "live"
      /\ after.context = scope[r].context /\ after.runtime = scope[r].context
  <2> HIDE DEF took, handles
  <2> QED BY <1>3, HandleResponseHold DEF SameHold
<1>5. /\ sentAll \in [Fetch -> FetchType]
      /\ left \in [Fetch -> FetchType]
      /\ \A f \in Fetch : /\ Counted(sentAll[f])
                          /\ Counted(left[f])
                          /\ left[f].state # "running"
    BY FetchLoopsCounted
<1>6. CASE WaitingsFault(s) # "none"
  <2>1. /\ fault' = WaitingsFault(s)
        /\ Keep(r, s, sentAll)
        /\ UNCHANGED wire
    BY <1>6 DEF HandleWaitings
  <2>2. WaitingsFault(s) \in {"use_after_free", "bad_cast"}
    BY <1>6 DEF WaitingsFault
  <2>3. wire' \in [Request -> Seq(Request)]
    BY <2>1 DEF IInv, TypeOK
  <2> HIDE DEF sentAll
  <2> QED BY <1>5, <2>1, <2>2, <2>3, KeepKeepsIInv
<1>7. CASE WaitingsFault(s) = "none"
  <2>1. /\ wire' = [wire EXCEPT ![r] = IF handles /\ Writes(took)
                                       THEN Append(said, took.response) ELSE said]
        /\ IF after.sent /\ AllWaitUntilsDone(after, promise[r])
           THEN Destroy(r, after, left, c)
           ELSE Keep(r, after, left)
        /\ UNCHANGED fault
    BY <1>7 DEF HandleWaitings
  <2> HIDE DEF sentAll, left, took, handles, after, saved, c
  <2>2. Writes(took) => took.response \in Request
    BY <1>3 DEF Writes, ScopeType
  <2>3. wire' \in [Request -> Seq(Request)]
    BY <2>1, <2>2 DEF IInv, TypeOK
  <2>4. fault' \in {"none", "use_after_free", "bad_cast"}
    BY <2>1 DEF IInv, TypeOK
  <2>5. CASE after.sent /\ AllWaitUntilsDone(after, promise[r])
    BY <1>1, <1>4, <1>5, <2>1, <2>3, <2>5, DestroyKeepsIInv
  <2>6. CASE ~(after.sent /\ AllWaitUntilsDone(after, promise[r]))
    BY <1>4, <1>5, <2>1, <2>3, <2>4, <2>6, KeepKeepsIInv
  <2> QED BY <2>5, <2>6
<1> QED BY <1>6, <1>7

\* A listener returns.
LEMMA ListenerReturnsKeepsIInv ==
    ASSUME IInv, NEW out \in Returns, ListenerReturns(out)
    PROVE  IInv'
<1> DEFINE r == turn.req
           s == IF out = "failed" THEN SetError(scope[r])
                ELSE IF out = "pending"
                     THEN [scope[r] EXCEPT !.pending = @ \cup {turn.listener}]
                ELSE scope[r]
           last == turn.cancelled \/ LastListener(s.context, turn.listener)
<1>1. /\ turn.kind = "listener"
      /\ scope' = [scope EXCEPT ![r] = s]
      /\ turn' = IF last THEN NewTurn("respond", r, 0)
                 ELSE NewTurn("listener", r, turn.listener + 1)
      /\ UNCHANGED <<pool, ctx, fetch, timer, promise, wire, fault>>
    BY DEF ListenerReturns
<1>2. /\ r \in Request
      /\ Live(r)
      /\ scope[r].context \in Context
      /\ scope[r] \in ScopeType
      /\ turn.listener \in 1 .. ctx[scope[r].context].listeners
      /\ ctx[scope[r].context].listeners \in 0 .. NListeners
    BY <1>1 DEF IInv, TypeOK, CallbacksConsistent, ContextOwnership, ContextType
<1>3. s \in ScopeType /\ SameHold(scope[r], s)
  <2>1. SetError(scope[r]) \in ScopeType /\ SameHold(scope[r], SetError(scope[r]))
    BY <1>2 DEF SetError, ScopeType, SameHold
  <2>2. turn.listener \in 1 .. NListeners
    BY <1>2, ListenerAssumption
  <2>3. out = "pending" => s \in ScopeType /\ SameHold(scope[r], s)
    BY <1>2, <2>2 DEF ScopeType, SameHold
  <2> QED BY <1>2, <2>1, <2>3 DEF SameHold
<1> HIDE DEF s
<1>4. /\ turn' \in TurnType
      /\ turn'.req = r
      /\ turn'.kind \in {"listener", "respond"}
      /\ turn'.kind = "listener" =>
            turn'.listener \in 1 .. ctx[scope[r].context].listeners
  <2>1. ~last => turn.listener + 1 \in 1 .. ctx[scope[r].context].listeners
    BY <1>2, <1>3, ListenerAssumption DEF LastListener, SameHold
  <2>2. ~last => turn.listener + 1 \in 0 .. NListeners
    BY <1>2, <2>1, ListenerAssumption
  <2> QED BY <1>1, <1>2, <2>1, <2>2, ListenerAssumption DEF NewTurn, TurnType
<1> HIDE DEF r, last
<1>5. /\ scope' \in [Request -> ScopeType]
      /\ \A q \in Request : /\ Live(q)' <=> Live(q)
                            /\ scope'[q].life = scope[q].life
                            /\ scope'[q].context = scope[q].context
                            /\ scope'[q].runtime = scope[q].runtime
    BY <1>1, <1>2, <1>3 DEF IInv, TypeOK, SameHold, Live
<1>6. TypeOK'
    BY <1>1, <1>4, <1>5 DEF IInv, TypeOK
<1>7. CallbacksConsistent'
    BY <1>1, <1>2, <1>4, <1>5 DEF IInv, CallbacksConsistent, r
<1>8. ContextOwnership'
  <2>1. \A d \in Context : /\ Pooled(d)' <=> Pooled(d)
                           /\ Held(d)' <=> Held(d)
    BY <1>1, <1>5 DEF Pooled, Held
  <2> QED BY <1>1, <1>5, <2>1 DEF IInv, ContextOwnership
<1>9. FetchReferences'
    BY <1>1, <1>5 DEF IInv, FetchReferences
<1>10. TimersDieWithScope'
    BY <1>1, <1>5 DEF IInv, TimersDieWithScope
<1> QED BY <1>6, <1>7, <1>8, <1>9, <1>10 DEF IInv

\* The handler ends.
LEMMA RespondKeepsIInv ==
    ASSUME IInv, fault = "none", Respond
    PROVE  IInv'
<1> DEFINE r == turn.req
           before == scope[r]
           s == HandleResponse(before)
           status == ResponseStatus(before)
           said == IF Writes(before) THEN Append(wire[r], before.response)
                   ELSE IF status # 0 THEN Append(wire[r], r)
                   ELSE wire[r]
           fin == {f \in Fetch : fetch[f].state = "running"}
           waiting == [s EXCEPT !.runtime = s.context]
<1>1. /\ turn.kind = "respond"
      /\ turn' = Idle
      /\ UNCHANGED promise
      /\ IF status # 0 /\ AllWaitUntilsDone(s, promise[r])
         THEN /\ Destroy(r, s, fetch, s.context)
              /\ wire' = [wire EXCEPT ![r] = said]
              /\ UNCHANGED fault
         ELSE HandleWaitings(r, waiting, said, {})
    BY DEF Respond, SetRuntimeContext
<1>2. /\ r \in Request
      /\ Live(r)
      /\ before \in ScopeType
      /\ before.context \in Context
    BY <1>1 DEF IInv, TypeOK, CallbacksConsistent, ContextOwnership
<1>3. s \in ScopeType /\ s.life = "live" /\ s.context = before.context
    BY <1>2, HandleResponseHold DEF SameHold, Live
<1>4. said \in Seq(Request)
  <2>1. wire[r] \in Seq(Request)
    BY <1>2 DEF IInv, TypeOK
  <2>2. Writes(before) => before.response \in Request
    BY <1>2 DEF Writes, ScopeType
  <2> HIDE DEF before, status
  <2> QED BY <1>2, <2>1, <2>2
<1>5. fin = {}
    BY <1>1 DEF IInv, CallbacksConsistent
<1>6. CASE status # 0 /\ AllWaitUntilsDone(s, promise[r])
  <2>1. /\ Destroy(r, s, fetch, s.context)
        /\ wire' = [wire EXCEPT ![r] = said]
        /\ UNCHANGED fault
    BY <1>1, <1>6
  <2>2. wire' \in [Request -> Seq(Request)]
    BY <1>4, <2>1 DEF IInv, TypeOK
  <2>3. /\ fetch \in [Fetch -> FetchType]
        /\ \A f \in Fetch : Counted(fetch[f]) /\ fetch[f].state # "running"
    BY <1>5 DEF IInv, TypeOK, FetchReferences, Counted
  <2> DEFINE c == s.context
  <2>4. c \in Context /\ c = scope[r].context /\ Destroy(r, s, fetch, c)
    BY <1>2, <1>3, <2>1
  <2> HIDE DEF s, said, status, c
  <2> QED BY <1>1, <1>2, <1>3, <2>1, <2>2, <2>3, <2>4, DestroyKeepsIInv
<1>7. CASE ~(status # 0 /\ AllWaitUntilsDone(s, promise[r]))
  <2>1. HandleWaitings(r, waiting, said, fin)
    BY <1>1, <1>5, <1>7
  <2>2. /\ waiting \in ScopeType
        /\ waiting.life = "live"
        /\ waiting.context = scope[r].context
        /\ waiting.runtime = scope[r].context
    <3> HIDE DEF s
    <3> QED BY <1>2, <1>3 DEF ScopeType
  <2> DEFINE ended == fin
  <2>3. ended = {f \in Fetch : fetch[f].state = "running"}
    OBVIOUS
  <2> HIDE DEF s, said, status, waiting, ended
  <2>4. HandleWaitings(r, waiting, said, ended)
    BY <2>1 DEF ended
  <2> QED BY <1>1, <1>2, <1>4, <2>2, <2>3, <2>4, HandleWaitingsKeepsIInv
<1> QED BY <1>6, <1>7

\* The callback of a timer or of a fetch ends.
LEMMA CallbackReturnsKeepsIInv ==
    ASSUME IInv, fault = "none", CallbackReturns
    PROVE  IInv'
<1> DEFINE r == turn.req
           fin == {f \in Fetch : fetch[f].state = "running"}
<1>1. /\ turn.kind \in {"timer", "fetch"}
      /\ turn' = Idle
      /\ UNCHANGED promise
      /\ HandleWaitings(r, scope[r], wire[r], fin)
    BY DEF CallbackReturns
<1>2. /\ r \in Request
      /\ Live(r)
      /\ scope[r] \in ScopeType
      /\ scope[r].life = "live"
      /\ scope[r].runtime = scope[r].context
      /\ wire[r] \in Seq(Request)
    BY <1>1 DEF IInv, TypeOK, CallbacksConsistent, Live
<1> DEFINE ended == fin
<1>3. ended = {f \in Fetch : fetch[f].state = "running"}
    OBVIOUS
<1>4. HandleWaitings(r, scope[r], wire[r], ended)
    BY <1>1
<1> HIDE DEF ended
<1> QED BY <1>1, <1>2, <1>3, <1>4, HandleWaitingsKeepsIInv

-----------------------------------------------------------------------------
(* The theorems.                                                           *)

\* Every step keeps the invariant.
LEMMA NextKeepsIInv == IInv /\ [Next]_vars => IInv'
<1>1. ASSUME IInv, fault = "none", Script
      PROVE  IInv'
    BY <1>1, RespondWithKeepsIInv, PromisesKeepIInv, TimersAndFetchesKeepIInv
    DEF Script
<1>2. ASSUME IInv, fault = "none", EndOfTurn
      PROVE  IInv'
    BY <1>2, ListenerReturnsKeepsIInv, RespondKeepsIInv, CallbackReturnsKeepsIInv
    DEF EndOfTurn
<1>3. ASSUME IInv, fault = "none", Loop
      PROVE  IInv'
    BY <1>3, HandleHttpRequestKeepsIInv, TimerExecuteKeepsIInv,
       FulfillPromiseKeepsIInv DEF Loop
<1>4. ASSUME IInv, fault = "none", Client
      PROVE  IInv'
    BY <1>4, ClientKeepsIInv DEF Client
<1>5. ASSUME IInv, UNCHANGED vars
      PROVE  IInv'
    BY <1>5
    DEF vars, IInv, TypeOK, CallbacksConsistent, ContextOwnership, Pooled, Held,
        Live, FetchReferences, TimersDieWithScope
<1> QED BY <1>1, <1>2, <1>3, <1>4, <1>5 DEF Next

\* The invariant holds in every state of every script.
THEOREM Invariance == Spec => []IInv
<1>1. Init => IInv
    BY InitIInv
<1>2. IInv /\ [Next]_vars => IInv'
    BY NextKeepsIInv
<1> QED BY <1>1, <1>2, PTL DEF Spec

\* The variables of the loop keep their types.
THEOREM TypeCorrect == Spec => []TypeOK
<1>1. IInv => TypeOK
    BY DEF IInv
<1> QED BY <1>1, Invariance, PTL

\* A context is lent to one request at a time, recycled exactly once, and
\* never reused after its script failed, however callbacks interleave.
THEOREM ContextsAreLentOnce == Spec => []ContextOwnership
<1>1. IInv => ContextOwnership
    BY DEF IInv
<1> QED BY <1>1, Invariance, PTL

\* A fetch is neither freed under a pending callback nor leaked by an answered
\* one, in every order of the answer and the end of the scope.
THEOREM ReferencesAreExact == Spec => []FetchReferences
<1>1. IInv => FetchReferences
    BY DEF IInv
<1> QED BY <1>1, Invariance, PTL

\* A timer never fires for a scope that is gone.
THEOREM TimersNeverOutliveScopes == Spec => []TimersDieWithScope
<1>1. IInv => TimersDieWithScope
    BY DEF IInv
<1> QED BY <1>1, Invariance, PTL

\* A callback runs for a live scope whose runtime_context_ is set exactly when
\* its handler has returned.
THEOREM CallbacksRunForLiveScopes == Spec => []CallbacksConsistent
<1>1. IInv => CallbacksConsistent
    BY DEF IInv
<1> QED BY <1>1, Invariance, PTL

-----------------------------------------------------------------------------
(* WorkerLoop implements ContextLease.  A step of the loop is one step of  *)
(* the lease, or none: get_context lends, the end of a scope gives back or *)
(* discards, and no other step changes who holds a context.                *)

LeaseStep == [Lease!Next]_<<pool, HeldContext, MadeContexts, BadContexts>>

\* The record of a context that a step of the script may change.
SameContexts ==
    \A c \in Context : ctx'[c].state = ctx[c].state /\ ctx'[c].error = ctx[c].error

SameHolders ==
    \A r \in Request : scope'[r].life = scope[r].life /\ scope'[r].context = scope[r].context

\* A step that changes no context and no holder is none of the lease.
LEMMA StutterOfLease ==
    ASSUME IInv, UNCHANGED pool, SameContexts, SameHolders
    PROVE  LeaseStep
<1>1. HeldContext' = HeldContext
    BY DEF HeldContext, SameHolders, Live
<1>2. MadeContexts' = MadeContexts /\ BadContexts' = BadContexts
    BY DEF MadeContexts, BadContexts, SameContexts
<1> QED BY <1>1, <1>2 DEF LeaseStep

\* Init is an initial state of the lease.
LEMMA InitIsLease == Init => Lease!Init
<1> SUFFICES ASSUME Init PROVE Lease!Init
    OBVIOUS
<1>1. PICK c \in Context :
        /\ pool = <<c>>
        /\ ctx = [d \in Context |->
                    IF d = c THEN MakeContext("ready", FALSE, NListeners)
                             ELSE NoContext]
    BY DEF Init
<1>2. HeldContext = [r \in Request |-> None]
    BY DEF Init, HeldContext, Live, NoScope, ScopeWith
<1>3. MadeContexts = {c} /\ BadContexts = {}
    BY <1>1 DEF MadeContexts, BadContexts, MakeContext, NoContext
<1> QED BY <1>1, <1>2, <1>3 DEF Lease!Init

\* get_context.
LEMMA HandleHttpRequestLends ==
    ASSUME IInv, NEW r \in Request, HandleHttpRequest(r)
    PROVE  LeaseStep
<1>0. PICK c \in Context : \E x \in FreshContexts \cup {ctx[c]} :
        /\ GetContext(c, x)
        /\ ctx' = [ctx EXCEPT ![c] = [x EXCEPT !.scope = r]]
        /\ scope' = [scope EXCEPT ![r] = NewScope(c)]
    BY DEF HandleHttpRequest
<1>1. PICK x \in FreshContexts \cup {ctx[c]} :
        /\ GetContext(c, x)
        /\ ctx' = [ctx EXCEPT ![c] = [x EXCEPT !.scope = r]]
        /\ scope' = [scope EXCEPT ![r] = NewScope(c)]
    BY <1>0
<1>2. /\ ~Live(r) /\ ctx \in [Context -> ContextType]
      /\ scope \in [Request -> ScopeType]
    BY DEF HandleHttpRequest, Live, IInv, TypeOK
<1>3. HeldContext[r] = None
      /\ HeldContext' = [HeldContext EXCEPT ![r] = c]
    BY <1>1, <1>2 DEF HeldContext, Live, NewScope, ScopeWith
<1> DEFINE y == [x EXCEPT !.scope = r]
<1>4. x \in ContextType /\ x.state = "ready"
    BY <1>1, GetContextFacts
<1>5. y.state = "ready" /\ y.error = x.error /\ ctx' = [ctx EXCEPT ![c] = y]
    BY <1>1, <1>4 DEF ContextType
<1> HIDE DEF y
<1>6. CASE pool # <<>> /\ c = Head(pool) /\ x = ctx[c] /\ pool' = Tail(pool)
  <2>1. MadeContexts' = MadeContexts /\ BadContexts' = BadContexts
    BY <1>2, <1>4, <1>5, <1>6 DEF MadeContexts, BadContexts
  <2>2. Lease!Lend(r)
    BY <1>3, <1>6, <2>1 DEF Lease!Lend
  <2> QED BY <2>2 DEF LeaseStep, Lease!Next
<1>7. CASE pool = <<>> /\ ctx[c].state = "unused" /\ pool' = pool
  <2>1. c \notin MadeContexts /\ MadeContexts' = MadeContexts \cup {c}
    BY <1>2, <1>5, <1>7 DEF MadeContexts
  <2>2. BadContexts' = BadContexts \cup (IF x.error THEN {c} ELSE {})
    BY <1>2, <1>5, <1>7 DEF BadContexts, MadeContexts
  <2>3. Lease!LendNew(r, c)
    BY <1>3, <1>7, <2>1, <2>2 DEF Lease!LendNew
  <2> QED BY <2>3 DEF LeaseStep, Lease!Next
<1> QED BY <1>1, <1>6, <1>7 DEF GetContext

-----------------------------------------------------------------------------
(* The end of a scope.                                                     *)

\* ~RequestScope gives the context back, or discards it.
LEMMA DestroyEndsLease ==
    ASSUME IInv, NEW r \in Request, Live(r), NEW s, NEW fs,
           NEW c, c = scope[r].context, Destroy(r, s, fs, c)
    PROVE  LeaseStep
<1>1. /\ c \in Context /\ ctx[c].state = "ready"
      /\ scope \in [Request -> ScopeType]
      /\ ctx \in [Context -> ContextType]
    BY DEF IInv, TypeOK, ContextOwnership
<1>2. scope' = [scope EXCEPT ![r] = DeadScope(s)] /\ Recycle(c)
    BY <1>1, NoneAssumption DEF Destroy
<1>3. /\ HeldContext[r] = c /\ c # None
      /\ HeldContext' = [HeldContext EXCEPT ![r] = None]
    BY <1>1, <1>2, NoneAssumption DEF HeldContext, Live, DeadScope, NoScope, ScopeWith
<1>4. CASE ctx[c].error
  <2> DEFINE y == [ctx[c] EXCEPT !.state = "deleted"]
  <2>1. UNCHANGED pool /\ ctx' = [ctx EXCEPT ![c] = y]
    BY <1>2, <1>4 DEF Recycle
  <2>2. y.state = "deleted" /\ y.error = ctx[c].error
    BY <1>1 DEF ContextType
  <2> HIDE DEF y
  <2>3. c \in BadContexts
    BY <1>1, <1>4 DEF BadContexts, MadeContexts
  <2>4. MadeContexts' = MadeContexts /\ BadContexts' = BadContexts
    BY <1>1, <2>1, <2>2 DEF BadContexts, MadeContexts
  <2>5. Lease!Discard(r)
    BY <1>3, <2>1, <2>3, <2>4 DEF Lease!Discard
  <2> QED BY <2>5 DEF LeaseStep, Lease!Next
<1>5. CASE ~ctx[c].error
  <2>1. pool' = Append(pool, c) /\ UNCHANGED ctx
    BY <1>2, <1>5 DEF Recycle
  <2>2. c \notin BadContexts
    BY <1>5 DEF BadContexts
  <2>3. MadeContexts' = MadeContexts /\ BadContexts' = BadContexts
    BY <2>1 DEF BadContexts, MadeContexts
  <2>4. Lease!Return(r)
    BY <1>3, <2>1, <2>2, <2>3 DEF Lease!Return
  <2> QED BY <2>4 DEF LeaseStep, Lease!Next
<1> QED BY <1>4, <1>5

\* A scope that waits keeps its context.
LEMMA KeepHolds ==
    ASSUME IInv, NEW r \in Request, Live(r), NEW s, s.life = "live",
           s.context = scope[r].context, NEW fs, Keep(r, s, fs)
    PROVE  LeaseStep
<1>1. UNCHANGED <<pool, ctx>> /\ scope' = [scope EXCEPT ![r] = s]
    BY DEF Keep
<1>2. SameContexts /\ SameHolders
    BY <1>1 DEF SameContexts, SameHolders, IInv, TypeOK, Live
<1> QED BY <1>1, <1>2, StutterOfLease

\* handle_waitings.
LEMMA HandleWaitingsLease ==
    ASSUME IInv, NEW r \in Request, Live(r), NEW s \in ScopeType, s.life = "live",
           s.context = scope[r].context, s.runtime = scope[r].context,
           NEW said, NEW fin, HandleWaitings(r, s, said, fin)
    PROVE  LeaseStep
<1> DEFINE sentAll == DoFetchRequests(fetch, r)
           saved == Promised(s)
           took == IF saved = None THEN s ELSE [s EXCEPT !.response = saved[1]]
           after == IF saved # None \/ s.error THEN HandleResponse(took) ELSE s
           left == FinishFetches(sentAll, fin)
           c == s.runtime
<1>1. after.life = "live" /\ after.context = scope[r].context
    BY DEF HandleResponse, ScopeType
<1>2. \/ Keep(r, s, sentAll) \/ Keep(r, after, left) \/ Destroy(r, after, left, c)
    BY DEF HandleWaitings
<1>3. c = scope[r].context
    OBVIOUS
<1> HIDE DEF sentAll, after, left, c
<1> QED BY <1>1, <1>2, <1>3, KeepHolds, DestroyEndsLease

-----------------------------------------------------------------------------
(* The steps of the script and the beginnings and ends of callbacks.       *)

\* No call of the script changes who holds a context.
LEMMA ScriptHolds == ASSUME IInv, Script PROVE LeaseStep
<1>1. InScript /\ UNCHANGED pool
    BY DEF Script, RespondWithResponse, RespondWithInvalid, RespondWithPromise,
           WaitUntil, SettlePromise, RejectListener, GlobalFetch, SetTimer, KillTimer
<1>2. /\ turn.req \in Request /\ CurrentScope = turn.req
      /\ scope[turn.req].context \in Context
      /\ scope \in [Request -> ScopeType] /\ ctx \in [Context -> ContextType]
    BY <1>1, CurrentScopeIsTurn DEF IInv, TypeOK
<1>3. SameHolders
  <2>1. ASSUME NEW st \in Status, NEW r \in Request
        PROVE  LET s == SetResponse(scope[r], r, st)
               IN  s.life = scope[r].life /\ s.context = scope[r].context
    BY <1>2 DEF SetResponse, ScopeType
  <2>2. ASSUME NEW r \in Request
        PROVE  LET s == SetError(scope[r])
               IN  s.life = scope[r].life /\ s.context = scope[r].context
    BY <1>2 DEF SetError, ScopeType
  <2>3. ASSUME NEW st \in Status, RespondWithResponse(st)
        PROVE  SameHolders
    BY <1>2, <2>1, <2>3 DEF RespondWithResponse, SameHolders
  <2>4. ASSUME NEW n \in Name, NEW st \in Status, RespondWithPromise(n, st)
        PROVE  SameHolders
    BY <1>2, <2>1, <2>2, <2>4 DEF RespondWithPromise, SameHolders
  <2>5. ASSUME NEW n \in Name, WaitUntil(n)
        PROVE  SameHolders
    BY <1>2, <2>5 DEF WaitUntil, SameHolders, ScopeType
  <2>6. ASSUME NEW i \in 1 .. NListeners, RejectListener(i)
        PROVE  SameHolders
    BY <1>2, <2>6 DEF RejectListener, SameHolders, ScopeType
  <2>7. ASSUME UNCHANGED scope
        PROVE  SameHolders
    BY <2>7 DEF SameHolders
  <2> QED BY <2>3, <2>4, <2>5, <2>6, <2>7
          DEF Script, RespondWithInvalid, SettlePromise, GlobalFetch, SetTimer, KillTimer
<1>4. SameContexts
  <2>1. ASSUME NEW n \in Name, NEW st \in Status, RespondWithPromise(n, st)
        PROVE  SameContexts
    BY <1>2, <2>1 DEF RespondWithPromise, SavePromise, SameContexts, ContextType
  <2>2. ASSUME UNCHANGED ctx
        PROVE  SameContexts
    BY <2>2 DEF SameContexts
  <2> QED BY <2>1, <2>2
          DEF Script, RespondWithResponse, RespondWithInvalid, WaitUntil,
              SettlePromise, RejectListener, GlobalFetch, SetTimer, KillTimer
<1> QED BY <1>1, <1>3, <1>4, StutterOfLease

\* A listener returns, the handler ends, or another callback ends.
LEMMA EndOfTurnLease == ASSUME IInv, EndOfTurn PROVE LeaseStep
<1>1. /\ turn.req \in Request /\ Live(turn.req)
      /\ scope[turn.req] \in ScopeType /\ scope[turn.req].life = "live"
    BY DEF EndOfTurn, ListenerReturns, Respond, CallbackReturns, IInv, TypeOK,
           CallbacksConsistent, Live
<1>2. ASSUME NEW out \in Returns, ListenerReturns(out)
      PROVE  LeaseStep
  <2>1. PICK s : /\ scope' = [scope EXCEPT ![turn.req] = s]
                 /\ s \in {SetError(scope[turn.req]), scope[turn.req],
                           [scope[turn.req] EXCEPT !.pending = @ \cup {turn.listener}]}
    BY <1>2 DEF ListenerReturns
  <2>2. s.life = scope[turn.req].life /\ s.context = scope[turn.req].context
    BY <1>1, <2>1 DEF SetError, ScopeType
  <2>3. SameHolders /\ SameContexts /\ UNCHANGED pool
    BY <1>1, <1>2, <2>1, <2>2
    DEF ListenerReturns, SameHolders, SameContexts, IInv, TypeOK
  <2> QED BY <2>3, StutterOfLease
<1>3. CASE Respond
  <2> DEFINE r == turn.req
             s == HandleResponse(scope[r])
             waiting == SetRuntimeContext(s)
             c == s.context
  <2>1. s \in ScopeType /\ s.life = "live" /\ s.context = scope[r].context
    BY <1>1, HandleResponseHold DEF SameHold
  <2>2. /\ waiting \in ScopeType /\ waiting.life = "live"
        /\ waiting.context = scope[r].context /\ waiting.runtime = scope[r].context
    <3> HIDE DEF s
    <3> QED BY <2>1, <1>1 DEF SetRuntimeContext, ScopeType
  <2>3. \/ Destroy(r, s, fetch, c)
        \/ \E said : HandleWaitings(r, waiting, said, {})
    BY <1>3 DEF Respond
  <2>4. CASE Destroy(r, s, fetch, c)
    <3>1. c = scope[r].context
      BY <2>1
    <3> HIDE DEF r, s, c
    <3> QED BY <1>1, <2>4, <3>1, DestroyEndsLease DEF r
  <2>5. CASE \E said : HandleWaitings(r, waiting, said, {})
    <3>1. PICK said : HandleWaitings(r, waiting, said, {})
      BY <2>5
    <3> HIDE DEF waiting
    <3> QED BY <1>1, <2>2, <3>1, HandleWaitingsLease
  <2> QED BY <2>3, <2>4, <2>5
<1>4. CASE CallbackReturns
  <2> DEFINE r == turn.req
             fin == {f \in Fetch : fetch[f].state = "running"}
             said == wire[r]
  <2>1. HandleWaitings(r, scope[r], said, fin)
    BY <1>4 DEF CallbackReturns
  <2>2. scope[r].runtime = scope[r].context
    BY <1>1, <1>4 DEF CallbackReturns, IInv, CallbacksConsistent
  <2> HIDE DEF fin, said
  <2> QED BY <1>1, <2>1, <2>2, HandleWaitingsLease
<1> QED BY <1>2, <1>3, <1>4 DEF EndOfTurn

\* Every step of the loop is a step of the lease, or none.
LEMMA NextIsLease == IInv /\ [Next]_vars => LeaseStep
<1> SUFFICES ASSUME IInv, [Next]_vars PROVE LeaseStep
    OBVIOUS
<1>1. ASSUME UNCHANGED <<pool, ctx, scope>>
      PROVE  LeaseStep
    BY <1>1, StutterOfLease DEF SameContexts, SameHolders
<1>2. ASSUME NEW t \in Timer, TimerExecute(t)
      PROVE  LeaseStep
    BY <1>1, <1>2 DEF TimerExecute
<1>3. ASSUME NEW f \in Fetch, FulfillPromise(f)
      PROVE  LeaseStep
    BY <1>1, <1>3 DEF FulfillPromise
<1>4. ASSUME Client
      PROVE  LeaseStep
    BY <1>1, <1>4 DEF Client, SendAsyncDone, SendAsyncFailed
<1>5. ASSUME UNCHANGED vars
      PROVE  LeaseStep
    BY <1>1, <1>5 DEF vars
<1> QED BY <1>2, <1>3, <1>4, <1>5, ScriptHolds, EndOfTurnLease,
           HandleHttpRequestLends DEF Next, Loop

\* The pool of V8Runtime is a lease of its contexts: each is lent to one
\* request at a time, in the order they came back, and never again once its
\* script failed (get_context, recycle_context, ~RequestScope).
THEOREM LeaseIsKept == Spec => LeaseSpec
<1>1. Init => Lease!Init
    BY InitIsLease
<1>2. IInv /\ [Next]_vars => [Lease!Next]_Lease!vars
    BY NextIsLease DEF LeaseStep, Lease!vars
<1> QED BY <1>1, <1>2, Invariance, PTL DEF Spec, LeaseSpec, Lease!Spec
=============================================================================
