----------------------- MODULE WorkerLoopAnswersProofs -----------------------
(***************************************************************************)
(* Proofs about WorkerLoop: what a request is answered, and what a scope   *)
(* that waits is waiting for.                                              *)
(*                                                                         *)
(* Two facts carry them.  A response is sent only by the turn of its own   *)
(* request, and the handler starts with nothing sent.  And the promise     *)
(* saved in a context, which nobody clears, is one of the request that     *)
(* holds the context or of one whose scope is gone: no later turn settles  *)
(* it, so a scope that waits between two turns stays as it was left.       *)
(***************************************************************************)
EXTENDS WorkerLoopProofs, WorkerLoopExchange

SentMarksAnswer ==
    \A r \in Request : /\ ~scope[r].sent => wire[r] = <<>>
                       /\ scope[r].life = "none" => ~scope[r].sent

HandlerHasNotSent ==
    turn.kind \in {"listener", "respond"} => ~scope[turn.req].sent

\* No turn but one that has the context c settles a promise of q.
OwnOrDead(c, q) ==
    \/ scope[q].life = "dead"
    \/ scope[q].life = "live" /\ scope[q].context = c

SavedIsOwnOrDead ==
    \A c \in Context : ctx[c].promise # None => OwnOrDead(c, ctx[c].promise[1])

SavedFulfilled(c) ==
    ctx[c].promise # None /\ promise[ctx[c].promise[1]][ctx[c].promise[2]] \in Fulfilled

\* What IdleScopesAreWaiting says of one scope.
Waiting(r) ==
    /\ \A f \in FetchesOf(r) : fetch[f].state # "created"
    /\ scope[r].sent => \E n \in scope[r].waits : promise[r][n] \notin Fulfilled
    /\ scope[r].error => scope[r].sent
    /\ SavedFulfilled(scope[r].context) => scope[r].sent

OthersAreWaiting ==
    fault = "none" => \A r \in Request :
        Live(r) /\ (turn.kind = "idle" \/ turn.req # r) => Waiting(r)

AInv ==
    /\ IInv
    /\ SentMarksAnswer
    /\ HandlerHasNotSent
    /\ DeadScopeSettled
    /\ SavedIsOwnOrDead
    /\ OthersAreWaiting

\* No request has come.
LEMMA InitAInv == Init => AInv
<1> SUFFICES ASSUME Init PROVE AInv
    OBVIOUS
<1>1. /\ \A r \in Request : scope[r].life = "none" /\ ~scope[r].sent /\ wire[r] = <<>>
      /\ turn.kind = "idle"
    BY DEF Init, NoScope, ScopeWith, Idle, NewTurn
<1>2. \A c \in Context : ctx[c].promise = None
    BY DEF Init, MakeContext, NoContext
<1> QED BY <1>1, <1>2, InitIInv
        DEF AInv, SentMarksAnswer, HandlerHasNotSent, DeadScopeSettled,
            SavedIsOwnOrDead, OthersAreWaiting, Live

\* Two live scopes have different contexts.
LEMMA ContextsDiffer ==
    ASSUME IInv, NEW q \in Request, NEW r \in Request, q # r, Live(q), Live(r)
    PROVE  scope[q].context # scope[r].context
BY DEF IInv, ContextOwnership

-----------------------------------------------------------------------------
(* The script.                                                             *)

InHandler == turn.kind \in {"listener", "respond"}

\* What a step within the turn of r can change: its scope, but not its life,
\* its context or what was sent; promises and fetches of r; and the promise
\* saved in its context.
ScriptEdit(r) ==
    /\ turn.kind # "idle" /\ turn'.kind # "idle" /\ turn'.req = turn.req
    /\ InHandler' <=> InHandler
    /\ UNCHANGED <<wire, fault>>
    /\ \A q \in Request : q # r => scope'[q] = scope[q] /\ promise'[q] = promise[q]
    /\ scope'[r].life = scope[r].life
    /\ scope'[r].context = scope[r].context
    /\ scope'[r].sent = scope[r].sent
    /\ \A c \in Context : \/ ctx'[c].promise = ctx[c].promise
                          \/ /\ c = scope[r].context
                             /\ \E n \in Name : ctx'[c].promise = <<r, n>>
    /\ \A f \in Fetch : fetch'[f] = fetch[f] \/ fetch'[f].scope = r

\* The calls of a script edit its own request, its context and its fetches.
LEMMA ScriptEdits ==
    ASSUME IInv, Script
    PROVE  /\ turn.req \in Request /\ Live(turn.req)
           /\ ScriptEdit(turn.req)
<1> DEFINE r == turn.req
<1>1. InScript
    BY DEF Script, RespondWithResponse, RespondWithInvalid, RespondWithPromise,
           WaitUntil, SettlePromise, RejectListener, GlobalFetch, SetTimer, KillTimer
<1>2. /\ r \in Request /\ Live(r) /\ CurrentScope = r
      /\ scope[r].context \in Context
      /\ scope \in [Request -> ScopeType] /\ ctx \in [Context -> ContextType]
      /\ promise \in [Request -> [Name -> PromiseValue]]
      /\ fetch \in [Fetch -> FetchType] /\ turn \in TurnType
      /\ turn.kind # "idle"
    BY <1>1, CurrentScopeIsTurn DEF IInv, TypeOK, InScript
<1>3. ASSUME NEW st \in Status, RespondWithResponse(st)
      PROVE  ScriptEdit(r)
  <2> DEFINE s == SetResponse(scope[r], r, st)
  <2>1. s.life = scope[r].life /\ s.context = scope[r].context /\ s.sent = scope[r].sent
    BY <1>2 DEF SetResponse, ScopeType
  <2>2. scope' = [scope EXCEPT ![r] = s]
    BY <1>2, <1>3 DEF RespondWithResponse
  <2>3. UNCHANGED <<ctx, fetch, promise, wire, fault>>
    BY <1>3 DEF RespondWithResponse
  <2>4. turn'.kind = turn.kind /\ turn'.req = turn.req
    BY <1>2, <1>3 DEF RespondWithResponse, Cancel, TurnType
  <2> HIDE DEF s, r
  <2> QED BY <1>2, <2>1, <2>2, <2>3, <2>4 DEF ScriptEdit, InHandler
<1>4. ASSUME NEW n \in Name, NEW st \in Status, RespondWithPromise(n, st)
      PROVE  ScriptEdit(r)
  <2> DEFINE value == promise[r][n]
             s == CASE value \in {"response", "shared"} ->
                           SetResponse(scope[r], r, st)
                    [] value = "rejected" -> SetError(scope[r])
                    [] OTHER -> scope[r]
             c == scope[r].context
  <2>1. s.life = scope[r].life /\ s.context = scope[r].context /\ s.sent = scope[r].sent
    <3>1. CASE value \in {"response", "shared"}
      BY <1>2, <3>1 DEF SetResponse, ScopeType
    <3>2. CASE value = "rejected"
      BY <1>2, <3>2 DEF SetError, ScopeType
    <3>3. CASE value \notin {"response", "shared", "rejected"}
      BY <3>3
    <3> QED BY <3>1, <3>2, <3>3
  <2>2. scope' = [scope EXCEPT ![r] = s]
    BY <1>2, <1>4 DEF RespondWithPromise
  <2>3. UNCHANGED <<fetch, promise, wire, fault>>
    BY <1>4 DEF RespondWithPromise
  <2>4. turn'.kind = turn.kind /\ turn'.req = turn.req
    BY <1>2, <1>4 DEF RespondWithPromise, Cancel, TurnType
  <2>5. ctx' = ctx \/ ctx' = [ctx EXCEPT ![c].promise = <<r, n>>]
    BY <1>4 DEF RespondWithPromise, SavePromise
  <2>6. \A d \in Context : \/ ctx'[d].promise = ctx[d].promise
                           \/ d = c /\ ctx'[d].promise = <<r, n>>
    BY <1>2, <2>5 DEF ContextType
  <2> HIDE DEF s, r
  <2> QED BY <1>2, <2>1, <2>2, <2>3, <2>4, <2>6 DEF ScriptEdit, InHandler
<1>5. ASSUME NEW n \in Name, WaitUntil(n)
      PROVE  ScriptEdit(r)
  <2> DEFINE s == [scope[r] EXCEPT !.waits = @ \cup {n}]
  <2>1. s.life = scope[r].life /\ s.context = scope[r].context /\ s.sent = scope[r].sent
    BY <1>2 DEF ScopeType
  <2>2. scope' = [scope EXCEPT ![r] = s]
    BY <1>2, <1>5 DEF WaitUntil
  <2> HIDE DEF s, r
  <2> QED BY <1>2, <1>5, <2>1, <2>2 DEF WaitUntil, ScriptEdit, InHandler
<1>6. ASSUME NEW i \in 1 .. NListeners, RejectListener(i)
      PROVE  ScriptEdit(r)
  <2> DEFINE s == [scope[r] EXCEPT !.pending = @ \ {i}, !.rejected = @ \cup {i}]
  <2>1. s.life = scope[r].life /\ s.context = scope[r].context /\ s.sent = scope[r].sent
    BY <1>2 DEF ScopeType
  <2>2. scope' = [scope EXCEPT ![r] = s]
    BY <1>2, <1>6 DEF RejectListener, ScopeType
  <2> HIDE DEF s, r
  <2> QED BY <1>2, <1>6, <2>1, <2>2 DEF RejectListener, ScriptEdit, InHandler
<1>7. ASSUME NEW n \in Name, NEW v \in Outcome, SettlePromise(n, v)
      PROVE  ScriptEdit(r)
    BY <1>2, <1>7 DEF SettlePromise, ScriptEdit, InHandler
<1>8. ASSUME NEW f \in Fetch, GlobalFetch(f)
      PROVE  ScriptEdit(r)
    BY <1>2, <1>8 DEF GlobalFetch, NewFetch, ScriptEdit, InHandler
<1>9. CASE RespondWithInvalid
    BY <1>2, <1>9 DEF RespondWithInvalid, Cancel, TurnType, ScriptEdit, InHandler
<1>10. ASSUME NEW t \in Timer,
              KillTimer(t) \/ (\E repeat \in Repeat : SetTimer(t, repeat))
      PROVE  ScriptEdit(r)
    BY <1>2, <1>10 DEF KillTimer, SetTimer, ScriptEdit, InHandler
<1> QED BY <1>2, <1>3, <1>4, <1>5, <1>6, <1>7, <1>8, <1>9, <1>10 DEF Script

\* Such a step keeps the invariant: the scopes that wait have other contexts
\* and other promises.
LEMMA EditKeepsAInv ==
    ASSUME AInv, IInv', NEW r \in Request, turn.req = r, Live(r), ScriptEdit(r)
    PROVE  AInv'
<1>1. IInv /\ scope[r].context \in Context
    BY DEF AInv, IInv, ContextOwnership
<1>3. \A q \in Request : /\ scope'[q].life = scope[q].life
                         /\ scope'[q].context = scope[q].context
                         /\ scope'[q].sent = scope[q].sent
                         /\ Live(q)' <=> Live(q)
    BY <1>1 DEF ScriptEdit, Live
<1>4. SentMarksAnswer' /\ HandlerHasNotSent'
  <2>1. UNCHANGED wire /\ turn'.req = turn.req /\ (InHandler' <=> InHandler)
    BY DEF ScriptEdit
  <2> QED BY <1>1, <1>3, <2>1 DEF AInv, SentMarksAnswer, HandlerHasNotSent, InHandler
<1>5. DeadScopeSettled'
  <2> SUFFICES ASSUME NEW q \in Request, scope'[q].life = "dead"
               PROVE  scope'[q].sent /\ \A n \in scope'[q].waits : promise'[q][n] \in Fulfilled
    BY DEF DeadScopeSettled
  <2>1. q # r /\ scope[q].life = "dead"
    BY <1>1, <1>3 DEF Live
  <2> QED BY <1>1, <2>1 DEF ScriptEdit, AInv, DeadScopeSettled
<1>6. SavedIsOwnOrDead'
  <2>1. ASSUME NEW c \in Context, ctx'[c].promise # None
        PROVE  OwnOrDead(c, ctx[c].promise[1])'
    <3>1. CASE ctx'[c].promise = ctx[c].promise
      <4>1. ctx[c].promise[1] \in Request
        BY <1>1, <2>1, <3>1 DEF IInv, TypeOK, ContextType
      <4>2. OwnOrDead(c, ctx[c].promise[1])
        BY <2>1, <3>1 DEF AInv, SavedIsOwnOrDead
      <4> QED BY <1>3, <3>1, <4>1, <4>2 DEF OwnOrDead
    <3>2. CASE c = scope[r].context /\ \E n \in Name : ctx'[c].promise = <<r, n>>
      BY <1>1, <1>3, <3>2 DEF OwnOrDead, Live
    <3> QED BY <1>1, <3>1, <3>2 DEF ScriptEdit
  <2> QED BY <2>1 DEF SavedIsOwnOrDead
<1>7. OthersAreWaiting'
  <2> SUFFICES ASSUME fault' = "none", NEW q \in Request, Live(q)',
                      turn'.kind = "idle" \/ turn'.req # q
               PROVE  Waiting(q)'
    BY DEF OthersAreWaiting
  <2>1. q # r /\ Live(q) /\ fault = "none" /\ turn.kind # "idle"
    BY <1>1, <1>3 DEF ScriptEdit
  <2>2. Waiting(q)
    BY <2>1 DEF AInv, OthersAreWaiting
  <2>3. scope'[q] = scope[q] /\ promise'[q] = promise[q]
    BY <1>1, <2>1 DEF ScriptEdit
  <2> DEFINE c == scope[q].context
             saved == ctx[c].promise
  <2>4. c \in Context /\ ctx'[c].promise = saved
    BY <1>1, <2>1, ContextsDiffer DEF ScriptEdit, IInv, ContextOwnership
  <2>5. saved # None => saved[1] \in Request /\ promise'[saved[1]] = promise[saved[1]]
    <3> SUFFICES ASSUME saved # None
                 PROVE  saved[1] \in Request /\ promise'[saved[1]] = promise[saved[1]]
      OBVIOUS
    <3>1. saved[1] \in Request
      BY <1>1, <2>4 DEF IInv, TypeOK, ContextType
    <3>2. OwnOrDead(c, saved[1])
      BY <2>4 DEF AInv, SavedIsOwnOrDead
    <3>3. saved[1] # r
      BY <1>1, <2>1, <3>2, ContextsDiffer DEF OwnOrDead, Live
    <3> QED BY <1>1, <3>1, <3>3 DEF ScriptEdit
  <2>6. SavedFulfilled(c)' <=> SavedFulfilled(c)
    BY <2>3, <2>4, <2>5 DEF SavedFulfilled
  <2>7. \A f \in FetchesOf(q)' : f \in FetchesOf(q) /\ fetch'[f] = fetch[f]
    BY <1>1, <2>1 DEF ScriptEdit, FetchesOf
  <2> QED BY <2>2, <2>3, <2>6, <2>7 DEF Waiting
<1> QED BY <1>4, <1>5, <1>6, <1>7 DEF AInv

-----------------------------------------------------------------------------
(* The end of a callback.                                                  *)

\* The answer of a turn: w is what the client of r has got in the end, given
\* that it had got said when the scope was s.
Answers(s, t, said, w) ==
    \/ w = said /\ (t.sent => s.sent \/ s.error)
    \/ /\ ~s.sent /\ ~s.error /\ t.sent
       /\ ctx[s.context].promise # None
       /\ \E x \in Request : x = ctx[s.context].promise[1] /\ w = Append(said, x)

\* What is left of the scope r, whose fields are now t: it waits for something,
\* or it is done and deleted.
Left(r, t) ==
    \/ /\ scope' = [scope EXCEPT ![r] = t]
       /\ UNCHANGED ctx
       /\ t.sent => \E n \in t.waits : promise[r][n] \notin Fulfilled
    \/ /\ scope' = [scope EXCEPT ![r] = DeadScope(t)]
       /\ \A c \in Context : /\ ctx'[c].promise = ctx[c].promise
                            /\ ctx'[c].listeners = ctx[c].listeners
       /\ t.sent /\ \A n \in t.waits : promise[r][n] \in Fulfilled

\* The fetches of r are sent if it waits, those of others are not made unsent,
\* and none becomes due again.
FetchesSent(r) ==
    \A f \in Fetch : /\ fetch'[f].scope = fetch[f].scope
                     /\ fetch'[f].state = "created" =>
                           /\ fetch[f].state = "created"
                           /\ fetch[f].scope # r \/ scope'[r].life = "dead"
                     /\ Unfinished(fetch'[f]) => Unfinished(fetch[f])

\* The end of a callback without a fault.
TurnSettles(r, s, t, said) ==
    /\ fault' = "none"
    /\ t.life = "live" /\ t.context = scope[r].context /\ t.waits = s.waits
    /\ s.sent \/ s.error \/ SavedFulfilled(scope[r].context) \/ t = s
    /\ s.error => t.sent
    /\ \E w : wire' = [wire EXCEPT ![r] = w] /\ Answers(s, t, said, w)
    /\ s.sent => t.sent
    /\ t.error => t.sent
    /\ SavedFulfilled(scope[r].context) => t.sent
    /\ Left(r, t)
    /\ FetchesSent(r)

\* Recycling touches neither the listeners nor the promise that is saved.
LEMMA RecycleKeepsPromises ==
    ASSUME IInv, NEW c \in Context, Recycle(c)
    PROVE  \A d \in Context : /\ ctx'[d].promise = ctx[d].promise
                              /\ ctx'[d].listeners = ctx[d].listeners
<1>1. ctx \in [Context -> ContextType]
    BY DEF IInv, TypeOK
<1>2. CASE ctx[c].error
  <2> DEFINE x == [ctx[c] EXCEPT !.state = "deleted"]
  <2>1. ctx' = [ctx EXCEPT ![c] = x]
    BY <1>2 DEF Recycle
  <2>2. x.promise = ctx[c].promise /\ x.listeners = ctx[c].listeners
    BY <1>1 DEF ContextType
  <2> HIDE DEF x
  <2> QED BY <1>1, <2>1, <2>2
<1>3. CASE ~ctx[c].error
    BY <1>3 DEF Recycle
<1> QED BY <1>2, <1>3

\* The operations on one fetch.
LEMMA FetchMoves ==
    ASSUME NEW x \in FetchType
    PROVE  /\ DoRequest(x) \in FetchType
           /\ DoRequest(x).scope = x.scope /\ DoRequest(x).state # "created"
           /\ Unfinished(DoRequest(x)) => Unfinished(x)
           /\ Release(x) \in FetchType
           /\ Release(x).scope = x.scope /\ Release(x).state = x.state
           /\ Finished(x) \in FetchType
           /\ Finished(x).scope = x.scope /\ Finished(x).state # "created"
           /\ ~Unfinished(Finished(x))
<1>1. Release(x) \in FetchType /\ Release(x).scope = x.scope /\ Release(x).state = x.state
    BY DEF Release, FetchType
<1>2. /\ Finished(x) \in FetchType
      /\ Finished(x).scope = x.scope /\ Finished(x).state # "created"
      /\ ~Unfinished(Finished(x))
  <2> DEFINE y == Release(x)
  <2>1. y \in FetchType /\ y.scope = x.scope /\ Finished(x) = [y EXCEPT !.state = "done"]
    BY <1>1 DEF Finished
  <2> HIDE DEF y
  <2> QED BY <2>1 DEF FetchType, FetchState, Unfinished
<1>3. /\ DoRequest(x) \in FetchType
      /\ DoRequest(x).scope = x.scope /\ DoRequest(x).state # "created"
      /\ Unfinished(DoRequest(x)) => Unfinished(x)
  <2> DEFINE y == Retain(x)
  <2>1. y \in FetchType /\ y.scope = x.scope
    BY DEF Retain, FetchType
  <2>2. DoRequest(x) = IF x.state = "created" THEN [y EXCEPT !.state = "sent"] ELSE x
    BY DEF DoRequest
  <2> HIDE DEF y
  <2> QED BY <2>1, <2>2 DEF FetchType, FetchState, Unfinished
<1> QED BY <1>1, <1>2, <1>3

\* The loops over fetches.
LEMMA LoopsSendFetches ==
    ASSUME IInv, NEW r \in Request, NEW fin,
           fetch' \in {FinishFetches(DoFetchRequests(fetch, r), fin),
                      TerminateFetches(FinishFetches(DoFetchRequests(fetch, r), fin), r)}
    PROVE  FetchesSent(r)
<1> DEFINE fs == DoFetchRequests(fetch, r)
           gs == FinishFetches(fs, fin)
           hs == TerminateFetches(gs, r)
<1>1. ASSUME NEW f \in Fetch
      PROVE  /\ fs[f] \in FetchType
             /\ fs[f].scope = fetch[f].scope
             /\ fs[f].state = "created" => fetch[f].state = "created" /\ fetch[f].scope # r
             /\ Unfinished(fs[f]) => Unfinished(fetch[f])
  <2>1. fetch[f] \in FetchType
    BY DEF IInv, TypeOK
  <2>2. fs[f] = IF fetch[f].scope = r THEN DoRequest(fetch[f]) ELSE fetch[f]
    BY DEF DoFetchRequests
  <2> HIDE DEF fs
  <2> QED BY <2>1, <2>2, FetchMoves
<1> HIDE DEF fs
<1>3. ASSUME NEW f \in Fetch
      PROVE  /\ gs[f] \in FetchType
             /\ gs[f].scope = fs[f].scope
             /\ gs[f].state = "created" => fs[f].state = "created"
             /\ Unfinished(gs[f]) => Unfinished(fs[f])
  <2>1. gs[f] = IF f \in fin THEN Finished(fs[f]) ELSE fs[f]
    BY DEF FinishFetches
  <2> HIDE DEF gs
  <2> QED BY <1>1, <2>1, FetchMoves
<1> HIDE DEF gs
<1>4. ASSUME NEW f \in Fetch
      PROVE  /\ hs[f].scope = gs[f].scope
             /\ hs[f].state = "created" => gs[f].state = "created"
             /\ Unfinished(hs[f]) => Unfinished(gs[f])
  <2>1. hs[f] = IF gs[f].scope = r THEN Release(gs[f]) ELSE gs[f]
    BY DEF TerminateFetches
  <2> HIDE DEF hs
  <2> QED BY <1>3, <2>1, FetchMoves DEF Unfinished
<1> HIDE DEF hs
<1>5. fetch' = gs \/ fetch' = hs
    BY DEF fs, gs, hs
<1> QED BY <1>1, <1>3, <1>4, <1>5 DEF FetchesSent

\* handle_waitings of the scope r, whose fields are s.
LEMMA HandleWaitingsSettles ==
    ASSUME IInv, fault = "none", NEW r \in Request, Live(r),
           NEW s \in ScopeType, s.life = "live",
           s.context = scope[r].context, s.runtime = scope[r].context,
           NEW said \in Seq(Request), NEW fin,
           HandleWaitings(r, s, said, fin), UNCHANGED promise
    PROVE  \/ /\ fault' # "none" /\ ~s.sent
              /\ scope' = [scope EXCEPT ![r] = s]
              /\ UNCHANGED <<wire, ctx>>
           \/ \E t \in ScopeType : TurnSettles(r, s, t, said)
<1> DEFINE sentAll == DoFetchRequests(fetch, r)
           left == FinishFetches(sentAll, fin)
           saved == Promised(s)
           took == IF saved = None THEN s ELSE [s EXCEPT !.response = saved[1]]
           handles == saved # None \/ s.error
           after == IF handles THEN HandleResponse(took) ELSE s
           c == s.runtime
<1>1. c \in Context /\ c = scope[r].context /\ c # None
      /\ ctx[c].promise \in (Request \X Name) \cup {None}
    BY NoneAssumption DEF IInv, TypeOK, ContextType, ContextOwnership
<1>2. saved # None => saved = ctx[c].promise /\ ~s.sent /\ SavedFulfilled(c)
    BY <1>1 DEF Promised, SavedFulfilled
<1>3. SavedFulfilled(c) => saved # None \/ s.sent
    BY <1>1 DEF Promised, SavedFulfilled
<1>4. CASE WaitingsFault(s) # "none"
  <2>1. /\ fault' # "none"
        /\ scope' = [scope EXCEPT ![r] = s]
        /\ UNCHANGED <<wire, ctx>>
    BY <1>4 DEF HandleWaitings, Keep
  <2>2. saved # None
    BY <1>4 DEF WaitingsFault
  <2> QED BY <1>2, <2>1, <2>2
<1>5. CASE WaitingsFault(s) = "none"
  <2>1. /\ wire' = [wire EXCEPT ![r] = IF handles /\ Writes(took)
                                       THEN Append(said, took.response) ELSE said]
        /\ IF after.sent /\ AllWaitUntilsDone(after, promise[r])
           THEN Destroy(r, after, left, c)
           ELSE Keep(r, after, left)
        /\ UNCHANGED fault
    BY <1>5 DEF HandleWaitings
  <2>2. saved # None => saved[1] \in Request
    BY <1>1, <1>2
  <2> HIDE DEF saved, c, sentAll, left
  <2>3. /\ took \in ScopeType /\ took.life = "live" /\ took.context = s.context
        /\ took.waits = s.waits /\ took.sent = s.sent /\ took.error = s.error
        /\ saved # None => took.response = saved[1] /\ took.response # None
    BY <2>2, NoneAssumption DEF ScopeType
  <2> HIDE DEF took
  <2>4. /\ HandleResponse(took) \in ScopeType
        /\ HandleResponse(took).life = took.life
        /\ HandleResponse(took).context = took.context
        /\ HandleResponse(took).waits = took.waits
        /\ HandleResponse(took).error = took.error
        /\ HandleResponse(took).sent = (took.sent \/ took.error \/ took.response # None)
    BY <2>3 DEF HandleResponse, ScopeType
  <2>5. /\ after \in ScopeType /\ after.life = "live" /\ after.context = s.context
        /\ after.waits = s.waits
        /\ s.sent => after.sent
        /\ s.error => after.sent
        /\ s.error \/ saved # None \/ after = s
        /\ after.error => after.sent
        /\ saved # None => after.sent
        /\ handles /\ Writes(took) =>
              /\ ~s.sent /\ ~s.error /\ after.sent /\ saved # None
              /\ took.response \in Request
        /\ ~(handles /\ Writes(took)) /\ after.sent => s.sent \/ s.error
    BY <2>3, <2>4 DEF Writes, ScopeType
  <2> DEFINE w == IF handles /\ Writes(took) THEN Append(said, took.response) ELSE said
  <2>6. wire' = [wire EXCEPT ![r] = w] /\ Answers(s, after, said, w)
    <3>1. CASE handles /\ Writes(took)
      <4>1. took.response = ctx[s.context].promise[1] /\ ctx[s.context].promise # None
        BY <1>1, <1>2, <2>3, <2>5, <3>1 DEF c
      <4> QED BY <2>1, <2>5, <3>1, <4>1 DEF Answers
    <3>2. CASE ~(handles /\ Writes(took))
      BY <2>1, <2>5, <3>2 DEF Answers
    <3> QED BY <3>1, <3>2
  <2> HIDE DEF after, handles, w
  <2>7. Left(r, after) /\ FetchesSent(r)
    <3>1. CASE after.sent /\ AllWaitUntilsDone(after, promise[r])
      <4>1. scope' = [scope EXCEPT ![r] = DeadScope(after)]
            /\ fetch' = TerminateFetches(left, r) /\ Recycle(c)
        BY <1>1, <2>1, <3>1 DEF Destroy, c
      <4>2. FetchesSent(r)
        BY <4>1, LoopsSendFetches DEF left, sentAll
      <4> QED BY <1>1, <3>1, <4>1, <4>2, RecycleKeepsPromises
              DEF Left, AllWaitUntilsDone
    <3>2. CASE ~(after.sent /\ AllWaitUntilsDone(after, promise[r]))
      <4>1. scope' = [scope EXCEPT ![r] = after] /\ fetch' = left /\ UNCHANGED ctx
        BY <2>1, <3>2 DEF Keep
      <4>2. FetchesSent(r)
        BY <4>1, LoopsSendFetches DEF left, sentAll
      <4> QED BY <3>2, <4>1, <4>2 DEF Left, AllWaitUntilsDone
    <3> QED BY <3>1, <3>2
  <2>8. SavedFulfilled(scope[r].context) => after.sent
    BY <1>1, <1>3, <2>5 DEF c
  <2>9. s.sent \/ s.error \/ SavedFulfilled(scope[r].context) \/ after = s
    BY <1>1, <1>2, <2>5 DEF c
  <2>10. TurnSettles(r, s, after, said)
    BY <2>1, <2>5, <2>6, <2>7, <2>8, <2>9 DEF TurnSettles
  <2> QED BY <2>5, <2>10
<1> QED BY <1>4, <1>5

\* A turn of r ends, in handle_waitings or before it: said is what its handler
\* told the client, s are the fields of the scope then.
TurnEndsWith(r, s, said) ==
    \/ /\ fault' # "none" /\ ~s.sent
       /\ scope' = [scope EXCEPT ![r] = s]
       /\ UNCHANGED <<wire, ctx>>
    \/ \E t \in ScopeType : TurnSettles(r, s, t, said)

\* AnswersOnce, of one step.
OneAnswer ==
    \A r \in Request : wire'[r] # wire[r] =>
        /\ ~scope[r].sent /\ scope'[r].sent
        /\ wire[r] = <<>> /\ Len(wire'[r]) = 1

\* The end of a turn, whether it kept or deleted its scope.
LEMMA TurnEndKeepsAInv ==
    ASSUME AInv, IInv', fault = "none",
           NEW r \in Request, Live(r), turn.req = r, turn.kind # "idle",
           NEW s \in ScopeType, s.life = "live", s.context = scope[r].context,
           scope[r].sent => s.sent,
           NEW said \in Seq(Request), ~s.sent => said = <<>>,
           said # wire[r] => ~scope[r].sent /\ s.sent /\ Len(said) = 1,
           TurnEndsWith(r, s, said),
           turn' = Idle, UNCHANGED promise
    PROVE  AInv' /\ OneAnswer
<1>1. /\ scope \in [Request -> ScopeType] /\ wire \in [Request -> Seq(Request)]
      /\ ctx \in [Context -> ContextType] /\ turn'.kind = "idle"
      /\ scope[r].context \in Context
    BY DEF AInv, IInv, TypeOK, Idle, NewTurn, ContextOwnership
<1>2. \A q \in Request : ~scope[q].sent => wire[q] = <<>>
    BY DEF AInv, SentMarksAnswer
<1>3. HandlerHasNotSent'
    BY <1>1 DEF HandlerHasNotSent
<1>4. \A c \in Context : ctx[c].promise # None =>
          ctx[c].promise[1] \in Request /\ OwnOrDead(c, ctx[c].promise[1])
    BY <1>1 DEF AInv, SavedIsOwnOrDead, ContextType
<1>5. CASE /\ fault' # "none" /\ ~s.sent
           /\ scope' = [scope EXCEPT ![r] = s]
           /\ UNCHANGED <<wire, ctx>>
  <2>1. SentMarksAnswer'
    BY <1>1, <1>2, <1>5 DEF SentMarksAnswer, AInv
  <2>2. DeadScopeSettled'
    BY <1>1, <1>5 DEF DeadScopeSettled, AInv
  <2>3. SavedIsOwnOrDead'
    <3>1. ASSUME NEW c \in Context, ctx'[c].promise # None
          PROVE  OwnOrDead(c, ctx[c].promise[1])'
      <4>1. ctx'[c].promise = ctx[c].promise /\ ctx[c].promise[1] \in Request
            /\ OwnOrDead(c, ctx[c].promise[1])
        BY <1>4, <1>5, <3>1
      <4> QED BY <1>1, <1>5, <4>1 DEF OwnOrDead, Live
    <3> QED BY <3>1 DEF SavedIsOwnOrDead
  <2>4. OthersAreWaiting' /\ OneAnswer
    BY <1>5 DEF OthersAreWaiting, OneAnswer
  <2> QED BY <1>3, <2>1, <2>2, <2>3, <2>4 DEF AInv
<1>6. ASSUME NEW t \in ScopeType, TurnSettles(r, s, t, said)
      PROVE  AInv' /\ OneAnswer
  <2>1. PICK w : wire' = [wire EXCEPT ![r] = w] /\ Answers(s, t, said, w)
    BY <1>6 DEF TurnSettles
  <2>2. PICK u : /\ scope' = [scope EXCEPT ![r] = u]
                 /\ u \in {t, DeadScope(t)}
    BY <1>6 DEF TurnSettles, Left
  <2>3. /\ DeadScope(t).life = "dead" /\ DeadScope(t).sent = t.sent
        /\ DeadScope(t).waits = t.waits
    BY DEF DeadScope, NoScope, ScopeWith
  <2>4. /\ \A c \in Context : ctx'[c].promise = ctx[c].promise
        /\ t.life = "live" /\ t.context = scope[r].context
        /\ s.sent => t.sent
    BY <1>6 DEF TurnSettles, Left
  <2>5. SentMarksAnswer'
    <3>1. ~t.sent => w = <<>>
      BY <2>1, <2>4 DEF Answers
    <3>2. u.sent = t.sent /\ u.life # "none"
      BY <2>2, <2>3, <2>4
    <3> QED BY <1>1, <2>1, <2>2, <3>1, <3>2 DEF SentMarksAnswer, AInv
  <2>6. DeadScopeSettled'
    <3>1. u.life = "dead" => u.sent /\ \A n \in u.waits : promise[r][n] \in Fulfilled
      <4>1. scope'[r] = u
        BY <1>1, <2>2
      <4> QED BY <1>1, <1>6, <2>2, <2>3, <2>4, <4>1 DEF TurnSettles, Left
    <3> QED BY <1>1, <2>2, <3>1 DEF DeadScopeSettled, AInv
  <2>7. SavedIsOwnOrDead'
    <3>1. u.life = "dead" \/ (u.life = "live" /\ u.context = scope[r].context)
      BY <2>2, <2>3, <2>4
    <3>2. ASSUME NEW c \in Context, ctx'[c].promise # None
          PROVE  OwnOrDead(c, ctx[c].promise[1])'
      <4>1. ctx'[c].promise = ctx[c].promise /\ ctx[c].promise[1] \in Request
            /\ OwnOrDead(c, ctx[c].promise[1])
        BY <1>4, <2>4, <3>2
      <4> QED BY <1>1, <2>2, <3>1, <4>1 DEF OwnOrDead, Live
    <3> QED BY <3>2 DEF SavedIsOwnOrDead
  <2>8. OthersAreWaiting'
    <3> SUFFICES ASSUME NEW q \in Request, Live(q)'
                 PROVE  Waiting(q)'
      BY DEF OthersAreWaiting
    <3>1. scope'[q].context \in Context
      BY DEF IInv, ContextOwnership
    <3>2. SavedFulfilled(scope[q].context)' <=> SavedFulfilled(scope'[q].context)
      BY <2>4, <3>1 DEF SavedFulfilled
    <3>3. CASE q = r
      <4>1. /\ scope' = [scope EXCEPT ![r] = t]
            /\ t.sent => \E n \in t.waits : promise[r][n] \notin Fulfilled
        BY <1>1, <1>6, <2>3, <3>3 DEF TurnSettles, Left, Live
      <4>2. scope'[r] = t
        BY <1>1, <4>1
      <4>3. \A f \in FetchesOf(r)' : fetch'[f].state # "created"
        BY <1>6, <2>4, <4>2 DEF TurnSettles, FetchesSent, FetchesOf
      <4>4. (t.error => t.sent) /\ (SavedFulfilled(scope[r].context)' => t.sent)
        BY <1>1, <1>6, <2>4, <4>2 DEF TurnSettles, SavedFulfilled
      <4> QED BY <3>3, <4>1, <4>2, <4>3, <4>4 DEF Waiting
    <3>4. CASE q # r
      <4>1. scope'[q] = scope[q] /\ Live(q) /\ Waiting(q)
        BY <1>1, <2>2, <3>4 DEF Live, AInv, OthersAreWaiting
      <4>2. \A f \in FetchesOf(q)' : f \in FetchesOf(q) /\
                (fetch'[f].state = "created" => fetch[f].state = "created")
        BY <1>6 DEF TurnSettles, FetchesSent, FetchesOf
      <4>3. SavedFulfilled(scope[q].context)' => SavedFulfilled(scope[q].context)
        BY <2>4, <3>1, <4>1 DEF SavedFulfilled
      <4> QED BY <4>1, <4>2, <4>3 DEF Waiting
    <3> QED BY <3>3, <3>4
  <2>9. OneAnswer
    <3> SUFFICES ASSUME NEW q \in Request, wire'[q] # wire[q]
                 PROVE  /\ ~scope[q].sent /\ scope'[q].sent
                        /\ wire[q] = <<>> /\ Len(wire'[q]) = 1
      BY DEF OneAnswer
    <3>1. q = r /\ wire'[r] = w /\ u.sent = t.sent /\ scope'[r] = u
      BY <1>1, <2>1, <2>2, <2>3
    <3>2. CASE w = said
      BY <1>2, <2>4, <3>1, <3>2
    <3>3. ASSUME ~s.sent, t.sent, \E x \in Request : w = Append(said, x)
          PROVE  /\ ~scope[q].sent /\ scope'[q].sent
                 /\ wire[q] = <<>> /\ Len(wire'[q]) = 1
      <4>1. said = <<>> /\ said = wire[r] /\ ~scope[r].sent
        BY <3>3
      <4>2. PICK x \in Request : w = <<x>>
        BY <3>3, <4>1
      <4>3. Len(wire'[r]) = 1
        BY <3>1, <4>2
      <4>4. scope'[r].sent
        BY <3>1, <3>3
      <4> QED BY <3>1, <4>1, <4>3, <4>4
    <3> QED BY <2>1, <3>2, <3>3 DEF Answers
  <2> QED BY <1>3, <2>5, <2>6, <2>7, <2>8, <2>9 DEF AInv
<1> QED BY <1>5, <1>6 DEF TurnEndsWith

\* destroy() in the handler: s are the fields of the scope of r, all done.
LEMMA DestroySettles ==
    ASSUME IInv, fault = "none", NEW r \in Request, NEW s \in ScopeType,
           s.life = "live", s.context = scope[r].context, s.context \in Context,
           s.sent, \A n \in s.waits : promise[r][n] \in Fulfilled, NEW said,
           Destroy(r, s, fetch, s.context),
           wire' = [wire EXCEPT ![r] = said], UNCHANGED fault
    PROVE  TurnSettles(r, s, s, said)
<1>1. /\ scope' = [scope EXCEPT ![r] = DeadScope(s)]
      /\ fetch' = TerminateFetches(fetch, r)
      /\ Recycle(s.context)
    BY NoneAssumption DEF Destroy
<1>2. Left(r, s)
    BY <1>1, RecycleKeepsPromises DEF Left
<1>3. FetchesSent(r)
  <2>1. scope'[r].life = "dead"
    BY <1>1 DEF DeadScope, NoScope, ScopeWith, IInv, TypeOK
  <2>2. ASSUME NEW f \in Fetch
        PROVE  /\ fetch'[f].scope = fetch[f].scope /\ fetch'[f].state = fetch[f].state
               /\ Unfinished(fetch'[f]) => Unfinished(fetch[f])
    <3>1. fetch'[f] = IF fetch[f].scope = r THEN Release(fetch[f]) ELSE fetch[f]
      BY <1>1 DEF TerminateFetches
    <3> QED BY <3>1, FetchMoves DEF IInv, TypeOK, Unfinished
  <2> QED BY <2>1, <2>2 DEF FetchesSent
<1> QED BY <1>2, <1>3 DEF TurnSettles, Answers

\* The handler ends.
LEMMA RespondKeepsAInv ==
    ASSUME AInv, IInv', fault = "none", Respond
    PROVE  AInv' /\ OneAnswer
<1> DEFINE r == turn.req
           before == scope[r]
           s == HandleResponse(before)
           status == ResponseStatus(before)
           said == IF Writes(before) THEN Append(wire[r], before.response)
                   ELSE IF status # 0 THEN Append(wire[r], r)
                   ELSE wire[r]
           waiting == SetRuntimeContext(s)
           nofetch == {}
<1>1. /\ turn.kind = "respond" /\ turn' = Idle /\ UNCHANGED promise
      /\ IF status # 0 /\ AllWaitUntilsDone(s, promise[r])
         THEN /\ Destroy(r, s, fetch, s.context)
              /\ wire' = [wire EXCEPT ![r] = said]
              /\ UNCHANGED fault
         ELSE HandleWaitings(r, waiting, said, nofetch)
    BY DEF Respond
<1>2. /\ IInv /\ r \in Request /\ Live(r) /\ before \in ScopeType
      /\ before.life = "live" /\ before.context \in Context
    BY <1>1 DEF AInv, IInv, TypeOK, CallbacksConsistent, ContextOwnership, Live
<1>3. ~before.sent /\ wire[r] = <<>>
    BY <1>1, <1>2 DEF AInv, HandlerHasNotSent, SentMarksAnswer
<1>4. /\ s \in ScopeType /\ s.life = "live" /\ s.context = before.context
      /\ s.waits = before.waits /\ s.error = before.error
      /\ s.sent = (before.error \/ before.response # None)
    BY <1>2, <1>3 DEF HandleResponse, ScopeType
<1>5. /\ status # 0 => before.error \/ before.response # None
      /\ Writes(before) => before.response \in Request
    BY <1>2 DEF ResponseStatus, Writes, ScopeType
<1>6. /\ said \in Seq(Request)
      /\ ~s.sent => said = <<>>
      /\ said # wire[r] => s.sent /\ Len(said) = 1
  <2> HIDE DEF r, before, s, status
  <2>1. CASE Writes(before)
    <3>1. said = Append(<<>>, before.response)
      BY <1>3, <2>1
    <3>2. s.sent /\ before.response \in Request
      BY <1>4, <1>5, <2>1 DEF Writes
    <3> HIDE DEF said
    <3>3. said = <<before.response>>
      BY <3>1, <3>2
    <3> QED BY <3>2, <3>3
  <2>2. CASE ~Writes(before) /\ status # 0
    <3>1. said = Append(<<>>, r)
      BY <1>3, <2>2
    <3>2. s.sent
      BY <1>4, <1>5, <2>2
    <3> HIDE DEF said
    <3>3. said = <<r>>
      BY <1>2, <3>1
    <3> QED BY <1>2, <3>2, <3>3
  <2>3. CASE ~Writes(before) /\ ~(status # 0)
    <3>1. said = <<>> /\ said = wire[r]
      BY <1>3, <2>3
    <3> HIDE DEF said
    <3> QED BY <3>1
  <2> QED BY <2>1, <2>2, <2>3
<1>7. CASE status # 0 /\ AllWaitUntilsDone(s, promise[r])
  <2>1. /\ Destroy(r, s, fetch, s.context)
        /\ wire' = [wire EXCEPT ![r] = said]
        /\ UNCHANGED fault
    BY <1>1, <1>7
  <2>2. s.sent /\ \A n \in s.waits : promise[r][n] \in Fulfilled
    BY <1>4, <1>5, <1>7 DEF AllWaitUntilsDone
  <2> HIDE DEF said, status, s
  <2>6. TurnSettles(r, s, s, said)
    BY <1>2, <1>4, <2>1, <2>2, DestroySettles
  <2>7. TurnEndsWith(r, s, said)
    BY <1>4, <2>6 DEF TurnEndsWith
  <2> QED BY <1>1, <1>2, <1>3, <1>4, <1>6, <2>7, TurnEndKeepsAInv
<1>8. CASE ~(status # 0 /\ AllWaitUntilsDone(s, promise[r]))
  <2>1. HandleWaitings(r, waiting, said, nofetch)
    BY <1>1, <1>8
  <2> HIDE DEF s, said, status, nofetch
  <2>2. /\ waiting \in ScopeType /\ waiting.life = "live"
        /\ waiting.context = scope[r].context /\ waiting.runtime = scope[r].context
        /\ waiting.sent = s.sent
    BY <1>2, <1>4 DEF SetRuntimeContext, ScopeType
  <2> HIDE DEF waiting
  <2>3. TurnEndsWith(r, waiting, said)
    BY <1>1, <1>2, <1>6, <2>1, <2>2, HandleWaitingsSettles DEF TurnEndsWith
  <2> QED BY <1>1, <1>2, <1>3, <1>6, <2>2, <2>3, TurnEndKeepsAInv
<1> QED BY <1>7, <1>8

\* The callback of a timer or of a fetch ends.
LEMMA CallbackReturnsKeepsAInv ==
    ASSUME AInv, IInv', fault = "none", CallbackReturns
    PROVE  AInv' /\ OneAnswer
<1> DEFINE r == turn.req
           s == scope[r]
           said == wire[r]
           fin == {f \in Fetch : fetch[f].state = "running"}
<1>1. /\ turn.kind \in {"timer", "fetch"} /\ turn' = Idle /\ UNCHANGED promise
      /\ HandleWaitings(r, s, said, fin)
    BY DEF CallbackReturns
<1>2. /\ IInv /\ r \in Request /\ Live(r) /\ s \in ScopeType
      /\ s.life = "live" /\ s.context = scope[r].context
      /\ s.runtime = scope[r].context /\ said \in Seq(Request)
      /\ ~s.sent => said = <<>>
    BY <1>1 DEF AInv, IInv, TypeOK, CallbacksConsistent, Live, SentMarksAnswer
<1> HIDE DEF fin
<1>3. TurnEndsWith(r, s, said)
    BY <1>1, <1>2, HandleWaitingsSettles DEF TurnEndsWith
<1> QED BY <1>1, <1>2, <1>3, TurnEndKeepsAInv

\* A listener returns.
LEMMA ListenerReturnsKeepsAInv ==
    ASSUME AInv, IInv', NEW out \in Returns, ListenerReturns(out)
    PROVE  AInv' /\ UNCHANGED wire
<1> DEFINE r == turn.req
           s == IF out = "failed" THEN SetError(scope[r])
                ELSE IF out = "pending"
                     THEN [scope[r] EXCEPT !.pending = @ \cup {turn.listener}]
                ELSE scope[r]
           last == turn.cancelled \/ LastListener(s.context, turn.listener)
<1>1. /\ turn.kind = "listener"
      /\ scope' = [scope EXCEPT ![r] = s]
      /\ turn' = IF last THEN NewTurn("respond", r, 0)
                 ELSE NewTurn("listener", r, turn.listener + 1)
      /\ UNCHANGED <<pool, ctx, fetch, timer, promise, wire, fault>>
    BY DEF ListenerReturns
<1>2. /\ r \in Request /\ Live(r) /\ scope[r] \in ScopeType
      /\ scope \in [Request -> ScopeType]
    BY <1>1 DEF AInv, IInv, TypeOK, CallbacksConsistent
<1>3. s.life = scope[r].life /\ s.context = scope[r].context /\ s.sent = scope[r].sent
    BY <1>2 DEF SetError, ScopeType
<1> HIDE DEF s, last
<1>4. /\ turn'.kind \in {"listener", "respond"} /\ turn'.req = r
    BY <1>1 DEF NewTurn
<1>5. ScriptEdit(r)
    BY <1>1, <1>2, <1>3, <1>4 DEF ScriptEdit, InHandler
<1> QED BY <1>1, <1>2, <1>5, EditKeepsAInv

-----------------------------------------------------------------------------
(* The beginnings of callbacks, and the theorems.                          *)

\* A request comes: nobody waits for it, and no saved promise is its own.
LEMMA HandleHttpRequestKeepsAInv ==
    ASSUME AInv, IInv', fault = "none", NEW r \in Request, HandleHttpRequest(r)
    PROVE  AInv' /\ UNCHANGED wire
<1>1. PICK c \in Context : \E x \in FreshContexts \cup {ctx[c]} :
        /\ GetContext(c, x)
        /\ ctx' = [ctx EXCEPT ![c] = [x EXCEPT !.scope = r]]
        /\ scope' = [scope EXCEPT ![r] = NewScope(c)]
        /\ turn' = IF x.listeners = 0 THEN NewTurn("respond", r, 0)
                   ELSE NewTurn("listener", r, 1)
    BY DEF HandleHttpRequest
<1>2. PICK x \in FreshContexts \cup {ctx[c]} :
        /\ GetContext(c, x)
        /\ ctx' = [ctx EXCEPT ![c] = [x EXCEPT !.scope = r]]
        /\ scope' = [scope EXCEPT ![r] = NewScope(c)]
        /\ turn' = IF x.listeners = 0 THEN NewTurn("respond", r, 0)
                   ELSE NewTurn("listener", r, 1)
    BY <1>1
<1>3. /\ IInv /\ turn.kind = "idle" /\ scope[r].life = "none" /\ ~Live(r)
      /\ scope \in [Request -> ScopeType] /\ ctx \in [Context -> ContextType]
      /\ UNCHANGED <<fetch, timer, promise, wire, fault>>
    BY DEF HandleHttpRequest, AInv, IInv, TypeOK, Live
<1>4. x \in ContextType /\ ~Held(c)
    BY <1>2, <1>3, GetContextFacts
<1>5. x.promise = None \/ x = ctx[c]
    BY <1>2 DEF FreshContexts, MakeContext
<1> DEFINE y == [x EXCEPT !.scope = r]
<1>6. ctx' = [ctx EXCEPT ![c] = y] /\ y.promise = x.promise
    BY <1>2, <1>4 DEF ContextType
<1> HIDE DEF y
<1>7. NewScope(c).life = "live" /\ NewScope(c).context = c /\ ~NewScope(c).sent
    BY DEF NewScope, ScopeWith
<1>8. turn'.req = r /\ turn'.kind # "idle"
    BY <1>2 DEF NewTurn
<1>9. SentMarksAnswer' /\ HandlerHasNotSent'
    BY <1>2, <1>3, <1>7, <1>8 DEF AInv, SentMarksAnswer, HandlerHasNotSent
<1>10. DeadScopeSettled'
    BY <1>2, <1>3, <1>7 DEF AInv, DeadScopeSettled
<1>11. \A d \in Context : ctx'[d].promise # None => ctx'[d].promise = ctx[d].promise
    BY <1>3, <1>5, <1>6
<1>12. SavedIsOwnOrDead'
  <2>1. ASSUME NEW d \in Context, ctx'[d].promise # None
        PROVE  OwnOrDead(d, ctx[d].promise[1])'
    <3>1. /\ ctx'[d].promise = ctx[d].promise
          /\ ctx[d].promise[1] \in Request /\ OwnOrDead(d, ctx[d].promise[1])
      BY <1>3, <1>11, <2>1 DEF AInv, SavedIsOwnOrDead, ContextType
    <3>2. ctx[d].promise[1] # r
      BY <1>3, <3>1 DEF OwnOrDead
    <3> QED BY <1>2, <1>3, <3>1, <3>2 DEF OwnOrDead
  <2> QED BY <2>1 DEF SavedIsOwnOrDead
<1>13. OthersAreWaiting'
  <2> SUFFICES ASSUME NEW q \in Request, Live(q)', q # r
               PROVE  Waiting(q)'
    BY <1>8 DEF OthersAreWaiting
  <2>1. scope'[q] = scope[q] /\ Live(q) /\ Waiting(q)
    BY <1>2, <1>3 DEF Live, AInv, OthersAreWaiting
  <2>2. scope[q].context # c /\ scope[q].context \in Context
    BY <1>3, <1>4, <2>1 DEF Held, IInv, ContextOwnership
  <2>3. SavedFulfilled(scope[q].context)' => SavedFulfilled(scope[q].context)
    BY <1>3, <1>6, <2>1, <2>2 DEF SavedFulfilled
  <2> QED BY <1>3, <2>1, <2>3 DEF Waiting, FetchesOf
<1> QED BY <1>3, <1>9, <1>10, <1>12, <1>13 DEF AInv

\* A step that leaves scopes, contexts and promises alone, and sends no fetch
\* back; it may begin a callback that is not the handler.
LEMMA CallKeepsAInv ==
    ASSUME AInv, IInv', UNCHANGED <<ctx, scope, promise, wire>>,
           fault' = "none" => fault = "none",
           UNCHANGED turn \/ (turn.kind = "idle" /\ turn'.kind \in {"timer", "fetch"}),
           \A f \in Fetch : fetch'[f] = fetch[f] \/
               (fetch'[f].scope = fetch[f].scope /\ fetch'[f].state # "created")
    PROVE  AInv'
<1>1. SentMarksAnswer' /\ HandlerHasNotSent' /\ DeadScopeSettled'
    BY DEF AInv, SentMarksAnswer, HandlerHasNotSent, DeadScopeSettled
<1>2. SavedIsOwnOrDead'
    BY DEF AInv, SavedIsOwnOrDead, OwnOrDead
<1>3. OthersAreWaiting'
  <2> SUFFICES ASSUME fault' = "none", NEW q \in Request, Live(q)',
                      turn'.kind = "idle" \/ turn'.req # q
               PROVE  Waiting(q)'
    BY DEF OthersAreWaiting
  <2>1. Waiting(q)
    BY DEF AInv, OthersAreWaiting, Live
  <2> QED BY <2>1 DEF Waiting, SavedFulfilled, FetchesOf
<1> QED BY <1>1, <1>2, <1>3 DEF AInv

\* Every step keeps the invariant, and answers a request at most once.
LEMMA NextKeepsAInv == AInv /\ [Next]_vars => AInv' /\ [OneAnswer]_vars
<1> SUFFICES ASSUME AInv, [Next]_vars PROVE AInv' /\ [OneAnswer]_vars
    OBVIOUS
<1>1. IInv'
    BY NextKeepsIInv DEF AInv
<1>2. ASSUME UNCHANGED wire
      PROVE  OneAnswer
    BY <1>2 DEF OneAnswer
<1>3. ASSUME fault = "none", Script
      PROVE  AInv' /\ OneAnswer
  <2>1. turn.req \in Request /\ Live(turn.req) /\ ScriptEdit(turn.req)
    BY <1>3, ScriptEdits DEF AInv
  <2> QED BY <1>1, <1>2, <2>1, EditKeepsAInv DEF ScriptEdit
<1>4. ASSUME fault = "none", EndOfTurn
      PROVE  AInv' /\ OneAnswer
    BY <1>1, <1>2, <1>4, ListenerReturnsKeepsAInv, RespondKeepsAInv,
       CallbackReturnsKeepsAInv DEF EndOfTurn
<1>5. ASSUME fault = "none", NEW r \in Request, HandleHttpRequest(r)
      PROVE  AInv' /\ OneAnswer
    BY <1>1, <1>2, <1>5, HandleHttpRequestKeepsAInv
<1>6. ASSUME fault = "none", NEW t \in Timer, TimerExecute(t)
      PROVE  AInv' /\ OneAnswer
    BY <1>1, <1>2, <1>6, CallKeepsAInv DEF TimerExecute, NewTurn
<1>7. ASSUME fault = "none", NEW f \in Fetch, FulfillPromise(f)
      PROVE  AInv' /\ OneAnswer
  <2>1. /\ UNCHANGED <<ctx, scope, promise, wire>> /\ turn.kind = "idle"
        /\ UNCHANGED turn \/ turn'.kind \in {"timer", "fetch"}
        /\ fetch' = fetch \/ fetch' = [fetch EXCEPT ![f] = Started(@)]
    BY <1>7 DEF FulfillPromise, NewTurn
  <2>2. Started(fetch[f]).scope = fetch[f].scope /\ Started(fetch[f]).state # "created"
        /\ fetch \in [Fetch -> FetchType]
    BY DEF Started, AInv, IInv, TypeOK, FetchType
  <2> QED BY <1>1, <1>2, <1>7, <2>1, <2>2, CallKeepsAInv
<1>8. ASSUME fault = "none", NEW f \in Fetch, SendAsyncDone(f) \/ SendAsyncFailed(f)
      PROVE  AInv' /\ OneAnswer
  <2>1. /\ UNCHANGED <<ctx, scope, promise, wire, turn, fault>>
        /\ \E x \in {Answered(fetch[f]), Unanswered(fetch[f])} :
              fetch' = [fetch EXCEPT ![f] = x]
    BY <1>8 DEF SendAsyncDone, SendAsyncFailed
  <2>2. /\ fetch \in [Fetch -> FetchType]
        /\ \A x \in {Answered(fetch[f]), Unanswered(fetch[f])} :
              x.scope = fetch[f].scope /\ x.state # "created"
    BY DEF Answered, Unanswered, AInv, IInv, TypeOK, FetchType
  <2> QED BY <1>1, <1>2, <2>1, <2>2, CallKeepsAInv
<1>9. ASSUME UNCHANGED vars
      PROVE  AInv' /\ OneAnswer
    BY <1>1, <1>2, <1>9, CallKeepsAInv DEF vars
<1> QED BY <1>3, <1>4, <1>5, <1>6, <1>7, <1>8, <1>9 DEF Next, Loop, Client

\* AInv holds for every script.
LEMMA AnswerInvariance == Spec => []AInv
<1>1. AInv /\ [Next]_vars => AInv'
    BY NextKeepsAInv
<1> QED BY InitAInv, <1>1, PTL DEF Spec

\* A scope is deleted only when its response was sent and what was given to
\* waitUntil is fulfilled, whichever callback deletes it (destroy).
THEOREM DeadScopesAreSettled == Spec => []DeadScopeSettled
<1>1. AInv => DeadScopeSettled
    BY DEF AInv
<1> QED BY AnswerInvariance, <1>1, PTL

\* Between two callbacks nothing is left undone that only handle_waitings
\* would do: no other request's turn makes a waiting scope ready.
THEOREM WaitingScopesAreWaiting == Spec => []IdleScopesAreWaiting
<1>1. AInv => IdleScopesAreWaiting
    BY DEF AInv, OthersAreWaiting, IdleScopesAreWaiting, Waiting, SavedFulfilled
<1> QED BY AnswerInvariance, <1>1, PTL

\* A client is answered at most once, over all the ways a script has to respond
\* (is_response_sent_).
THEOREM ClientsAreAnsweredOnce == Spec => AnswersOnce
<1>1. AInv /\ [Next]_vars => [OneAnswer]_vars
    BY NextKeepsAInv
<1> QED BY AnswerInvariance, <1>1, PTL DEF Spec, AnswersOnce, OneAnswer

-----------------------------------------------------------------------------
(* Scripts with three habits: they respond once and in the handler, await  *)
(* their fetches, and fulfill with responses.  The other habits are not    *)
(* needed for safety.                                                      *)

Discipline ==
    {"responds_once_in_handler", "awaits_fetches", "fulfills_with_response"}
    \subseteq Habits

HandlerOf(r) == InHandler /\ turn.req = r
MayStillRespond(r) == turn.kind = "listener" /\ turn.req = r /\ ~turn.cancelled

\* The promise saved in the context of r, and who saved it.
Saved(r) == ctx[scope[r].context].promise
NotOfAnother(r) == Saved(r) = None \/ Saved(r)[1] = r
NotOwn(r) == Saved(r) = None \/ Saved(r)[1] # r

\* What a request has got when its handler may not respond any more.
Responded(r) ==
    \/ scope[r].sent
    \/ HandlerOf(r) /\ (scope[r].error \/ scope[r].response = r)
    \/ NotOfAnother(r)

\* The request r is answered by its own script, and its fetches keep it alive.
GoodAnswers(r) ==
    /\ scope[r].sent => wire[r] = <<r>>
    /\ Live(r) =>
          /\ scope[r].error => scope[r].sent \/ HandlerOf(r)
          /\ HandlerOf(r) => scope[r].response \in {None, r}
          /\ MayStillRespond(r) => NotOwn(r)
          /\ ~MayStillRespond(r) => Responded(r)
    /\ FetchDue(r) => Live(r) /\ AwaitsPromise(r, scope[r], promise[r])

\* A saved promise was saved by a listener and is a pending one or a response.
SavedIsUsable ==
    \A c \in Context : ctx[c].promise # None =>
        /\ ctx[c].listeners > 0
        /\ promise[ctx[c].promise[1]][ctx[c].promise[2]] \notin {"other", "rejected"}

DInv ==
    /\ AInv
    /\ fault = "none"
    /\ SavedIsUsable
    /\ \A r \in Request : GoodAnswers(r)

\* No request has come, and nothing is saved in the first context.
LEMMA InitDInv == Init => DInv
<1> SUFFICES ASSUME Init PROVE DInv
    OBVIOUS
<1>1. /\ \A r \in Request : scope[r].life = "none" /\ ~scope[r].sent
      /\ \A c \in Context : ctx[c].promise = None
      /\ fault = "none"
    BY DEF Init, NoScope, ScopeWith, MakeContext, NoContext
<1>2. \A r \in Request : ~FetchDue(r)
  <2>1. \A f \in Fetch : fetch[f].state = "unused"
    BY DEF Init, NoFetch
  <2> QED BY <2>1 DEF FetchDue, FetchesOf, Unfinished
<1> QED BY <1>1, <1>2, InitAInv DEF DInv, SavedIsUsable, GoodAnswers, Live

\* What a step does not touch stays good.
LEMMA FrameKeepsGood ==
    ASSUME NEW q \in Request, GoodAnswers(q),
           scope'[q] = scope[q], wire'[q] = wire[q], promise'[q] = promise[q],
           Live(q) => ctx'[scope[q].context].promise = ctx[scope[q].context].promise,
           FetchDue(q)' => FetchDue(q),
           ~HandlerOf(q), ~HandlerOf(q)'
    PROVE  GoodAnswers(q)'
<1>1. ~MayStillRespond(q) /\ ~MayStillRespond(q)'
    BY DEF MayStillRespond, HandlerOf, InHandler
<1>2. Live(q)' <=> Live(q)
    BY DEF Live
<1>3. Live(q) => (NotOfAnother(q)' <=> NotOfAnother(q))
    BY DEF NotOfAnother, Saved
<1>4. Live(q) => (Responded(q)' <=> Responded(q))
    BY <1>3 DEF Responded
<1>5. Live(q) /\ AwaitsPromise(q, scope[q], promise[q])
          => AwaitsPromise(q, scope[q], promise[q])'
    BY DEF AwaitsPromise
<1> QED BY <1>1, <1>2, <1>4, <1>5 DEF GoodAnswers

-----------------------------------------------------------------------------
(* The turns of the script.                                                *)

\* In a turn of the script, the other requests stay good.
LEMMA OthersStayGood ==
    ASSUME DInv, NEW r \in Request, turn.req = r, Live(r), ScriptEdit(r),
           NEW q \in Request, q # r
    PROVE  GoodAnswers(q)'
<1>1. /\ scope'[q] = scope[q] /\ wire' = wire /\ promise'[q] = promise[q]
      /\ ~HandlerOf(q) /\ ~HandlerOf(q)'
    BY DEF ScriptEdit, HandlerOf
<1>2. Live(q) => ctx'[scope[q].context].promise = ctx[scope[q].context].promise
    BY ContextsDiffer DEF ScriptEdit, DInv, AInv, IInv, ContextOwnership
<1>3. FetchDue(q)' => FetchDue(q)
    BY DEF ScriptEdit, FetchDue, FetchesOf
<1> QED BY <1>1, <1>2, <1>3, FrameKeepsGood DEF DInv

\* respondWith keeps r good: what is due awaits a promise of waitUntil, since
\* no promise of its own is saved before.
LEMMA RespondWithKeepsGood ==
    ASSUME Discipline, DInv, NEW r \in Request, turn.req = r, Live(r),
           CurrentScope = r,
           \/ \E st \in Status : RespondWithResponse(st)
           \/ RespondWithInvalid
           \/ \E n \in Name, st \in Status : RespondWithPromise(n, st)
    PROVE  GoodAnswers(r)' /\ SavedIsUsable'
<1>1. /\ turn.kind = "listener" /\ ~turn.cancelled
      /\ turn' = [turn EXCEPT !.cancelled = TRUE]
      /\ UNCHANGED <<fetch, promise, wire>>
    BY DEF Discipline, RespondWithResponse, RespondWithInvalid, RespondWithPromise,
           MayRespond, Cancel
<1>2. /\ scope \in [Request -> ScopeType] /\ ctx \in [Context -> ContextType]
      /\ turn \in TurnType /\ scope[r].context \in Context
      /\ ctx[scope[r].context].listeners > 0
    BY <1>1, ListenerAssumption DEF DInv, AInv, IInv, TypeOK, ContextOwnership,
                                    CallbacksConsistent, ContextType
<1>3. /\ turn'.kind = "listener" /\ turn'.req = r /\ turn'.cancelled
    BY <1>1, <1>2 DEF TurnType
<1>4. /\ HandlerOf(r) /\ HandlerOf(r)' /\ MayStillRespond(r) /\ ~MayStillRespond(r)'
    BY <1>1, <1>3 DEF HandlerOf, InHandler, MayStillRespond
<1>5. ~scope[r].sent /\ GoodAnswers(r)
    BY <1>1 DEF DInv, AInv, HandlerHasNotSent
<1>6. NotOwn(r)
    BY <1>4, <1>5 DEF GoodAnswers
<1>7. FetchDue(r) => \E n \in scope[r].waits : n \in Name /\ promise[r][n] = "pending"
  <2>1. ASSUME NEW n \in Name
        PROVE  Saved(r) # <<r, n>>
    <3>1. <<r, n>> \in Request \X Name /\ <<r, n>>[1] = r
      OBVIOUS
    <3> QED BY <1>6, <3>1, NoneAssumption DEF NotOwn
  <2> QED BY <1>5, <2>1 DEF GoodAnswers, AwaitsPromise, Saved
<1>8. ASSUME NEW s, scope' = [scope EXCEPT ![r] = s],
             s.life = "live", s.waits = scope[r].waits, ~s.sent,
             s.response \in {None, r},
             s.response = r \/ NotOfAnother(r)'
      PROVE  GoodAnswers(r)'
  <2>1. scope'[r] = s /\ Live(r)'
    BY <1>2, <1>8 DEF Live
  <2>2. FetchDue(r)' => AwaitsPromise(r, scope[r], promise[r])'
    BY <1>1, <1>7, <1>8, <2>1 DEF FetchDue, FetchesOf, AwaitsPromise
  <2>3. Responded(r)'
    BY <1>4, <1>8, <2>1 DEF Responded
  <2> QED BY <1>4, <1>8, <2>1, <2>2, <2>3 DEF GoodAnswers
<1>9. ASSUME NEW st \in Status, RespondWithResponse(st)
      PROVE  GoodAnswers(r)' /\ SavedIsUsable'
  <2> DEFINE s == SetResponse(scope[r], r, st)
  <2>1. scope' = [scope EXCEPT ![r] = s] /\ UNCHANGED ctx
    BY <1>2, <1>9 DEF RespondWithResponse
  <2>2. s.life = "live" /\ s.waits = scope[r].waits /\ ~s.sent /\ s.response = r
    BY <1>2, <1>5 DEF SetResponse, ScopeType, Live
  <2> HIDE DEF s
  <2> QED BY <1>1, <1>8, <2>1, <2>2 DEF DInv, SavedIsUsable
<1>10. ASSUME NEW n \in Name, NEW st \in Status, RespondWithPromise(n, st)
       PROVE  GoodAnswers(r)' /\ SavedIsUsable'
  <2> DEFINE value == promise[r][n]
             s == SetResponse(scope[r], r, st)
             c == scope[r].context
             saved == <<r, n>>
  <2>1. value \in {"pending", "response", "shared"}
    <3>1. value \in PromiseValue
      BY DEF DInv, AInv, IInv, TypeOK
    <3>2. value \notin {"other", "rejected"}
      BY <1>10 DEF Discipline, RespondWithPromise
    <3> QED BY <3>1, <3>2 DEF PromiseValue, Fulfilled
  <2>2. CASE value = "pending"
    <3>1. ctx' = [ctx EXCEPT ![c].promise = saved]
      BY <1>10, <2>2 DEF RespondWithPromise, SavePromise
    <3>2. scope' = [scope EXCEPT ![r] = scope[r]]
      BY <1>2, <1>10, <2>2 DEF RespondWithPromise
    <3>3. /\ ctx'[c].promise = saved /\ ctx'[c].listeners = ctx[c].listeners
          /\ \A d \in Context : d # c => ctx'[d] = ctx[d]
      BY <1>2, <3>1 DEF ContextType
    <3>4. scope'[r] = scope[r]
      BY <1>2, <3>2
    <3>5. NotOfAnother(r)'
      BY <3>3, <3>4 DEF NotOfAnother, Saved
    <3>6. SavedIsUsable'
      BY <1>1, <1>2, <2>2, <3>3 DEF SavedIsUsable, DInv
    <3>7. scope[r].response \in {None, r} /\ scope[r].life = "live"
      BY <1>4, <1>5 DEF GoodAnswers, Live
    <3> QED BY <1>5, <1>8, <3>2, <3>5, <3>6, <3>7
  <2>3. CASE value \in {"response", "shared"}
    <3>1. scope' = [scope EXCEPT ![r] = s] /\ UNCHANGED ctx
      BY <1>2, <1>10, <2>3 DEF RespondWithPromise
    <3>2. s.life = "live" /\ s.waits = scope[r].waits /\ ~s.sent /\ s.response = r
      BY <1>2, <1>5 DEF SetResponse, ScopeType, Live
    <3> HIDE DEF s
    <3> QED BY <1>1, <1>8, <3>1, <3>2 DEF DInv, SavedIsUsable
  <2> QED BY <2>1, <2>2, <2>3
<1>11. ~RespondWithInvalid
    BY DEF Discipline, RespondWithInvalid
<1> QED BY <1>9, <1>10, <1>11

\* waitUntil, settled promises, fetches and timers keep r good.
LEMMA OtherCallsKeepGood ==
    ASSUME Discipline, DInv, NEW r \in Request, turn.req = r, Live(r),
           CurrentScope = r, UNCHANGED <<ctx, wire>>,
           \/ \E n \in Name : WaitUntil(n)
           \/ \E n \in Name, v \in Outcome : SettlePromise(n, v)
           \/ \E i \in 1 .. NListeners : RejectListener(i)
           \/ \E f \in Fetch : GlobalFetch(f)
           \/ \E t \in Timer, repeat \in Repeat : SetTimer(t, repeat)
           \/ \E t \in Timer : KillTimer(t)
    PROVE  GoodAnswers(r)' /\ SavedIsUsable'
<1>1. /\ scope \in [Request -> ScopeType] /\ promise \in [Request -> [Name -> PromiseValue]]
      /\ fetch \in [Fetch -> FetchType]
      /\ ctx \in [Context -> ContextType] /\ scope[r].context \in Context
      /\ GoodAnswers(r) /\ SavedIsUsable
    BY DEF DInv, AInv, IInv, TypeOK, ContextOwnership
<1>2. UNCHANGED turn
    BY DEF WaitUntil, SettlePromise, RejectListener, GlobalFetch, SetTimer, KillTimer
<1>3. \A c \in Context : ctx[c].promise # None =>
          ctx[c].promise \in Request \X Name /\ OwnOrDead(c, ctx[c].promise[1])
    BY <1>1 DEF DInv, AInv, SavedIsOwnOrDead, ContextType
\* The rest of GoodAnswers follows when only these change.
<1>4. ASSUME NEW s, scope' = [scope EXCEPT ![r] = s],
             s.life = "live", s.context = scope[r].context, s.sent = scope[r].sent,
             s.error = scope[r].error, s.response = scope[r].response,
             FetchDue(r)' => AwaitsPromise(r, scope[r], promise[r])'
      PROVE  GoodAnswers(r)'
  <2>1. scope'[r] = s /\ Live(r)'
    BY <1>1, <1>4 DEF Live
  <2>2. /\ HandlerOf(r)' <=> HandlerOf(r)
        /\ MayStillRespond(r)' <=> MayStillRespond(r)
    BY <1>2 DEF HandlerOf, InHandler, MayStillRespond
  <2>3. Saved(r)' = Saved(r)
    BY <1>4, <2>1 DEF Saved
  <2>4. Responded(r) => Responded(r)'
    BY <1>4, <2>1, <2>2, <2>3 DEF Responded, NotOfAnother
  <2>5. NotOwn(r) => NotOwn(r)'
    BY <2>3 DEF NotOwn
  <2> QED BY <1>1, <1>4, <2>1, <2>2, <2>4, <2>5 DEF GoodAnswers
<1>5. ASSUME UNCHANGED <<fetch, promise>>,
             NEW s, scope' = [scope EXCEPT ![r] = s],
             s.life = "live", s.context = scope[r].context, s.sent = scope[r].sent,
             s.error = scope[r].error, s.response = scope[r].response,
             scope[r].waits \subseteq s.waits
      PROVE  GoodAnswers(r)' /\ SavedIsUsable'
  <2>1. scope'[r] = s
    BY <1>1, <1>5
  <2>2. FetchDue(r)' => AwaitsPromise(r, scope[r], promise[r])'
    BY <1>1, <1>5, <2>1 DEF GoodAnswers, FetchDue, FetchesOf, AwaitsPromise
  <2>3. SavedIsUsable'
    BY <1>1, <1>5 DEF SavedIsUsable
  <2> QED BY <1>4, <1>5, <2>2, <2>3
<1>6. ASSUME NEW n \in Name, WaitUntil(n)
      PROVE  GoodAnswers(r)' /\ SavedIsUsable'
  <2> DEFINE s == [scope[r] EXCEPT !.waits = @ \cup {n}]
  <2>1. scope' = [scope EXCEPT ![r] = s] /\ UNCHANGED <<fetch, promise>>
    BY <1>1, <1>6 DEF WaitUntil
  <2>2. /\ s.life = "live" /\ s.context = scope[r].context /\ s.sent = scope[r].sent
        /\ s.error = scope[r].error /\ s.response = scope[r].response
        /\ scope[r].waits \subseteq s.waits
    BY <1>1 DEF ScopeType, Live
  <2> HIDE DEF s
  <2> QED BY <1>5, <2>1, <2>2
<1>7. ASSUME NEW i \in 1 .. NListeners, RejectListener(i)
      PROVE  GoodAnswers(r)' /\ SavedIsUsable'
  <2> DEFINE s == [scope[r] EXCEPT !.pending = @ \ {i}, !.rejected = @ \cup {i}]
  <2>1. scope' = [scope EXCEPT ![r] = s] /\ UNCHANGED <<fetch, promise>>
    BY <1>1, <1>7 DEF RejectListener, ScopeType
  <2>2. /\ s.life = "live" /\ s.context = scope[r].context /\ s.sent = scope[r].sent
        /\ s.error = scope[r].error /\ s.response = scope[r].response
        /\ scope[r].waits \subseteq s.waits
    BY <1>1 DEF ScopeType, Live
  <2> HIDE DEF s
  <2> QED BY <1>5, <2>1, <2>2
<1>8. scope[r].life = "live" /\ scope[r].waits \subseteq scope[r].waits
    BY DEF Live
<1>9. ASSUME NEW t \in Timer, KillTimer(t) \/ (\E repeat \in Repeat : SetTimer(t, repeat))
      PROVE  GoodAnswers(r)' /\ SavedIsUsable'
  <2>1. scope' = [scope EXCEPT ![r] = scope[r]] /\ UNCHANGED <<fetch, promise>>
    BY <1>1, <1>9 DEF KillTimer, SetTimer
  <2> QED BY <1>5, <1>8, <2>1
<1>10. ASSUME NEW f \in Fetch, GlobalFetch(f)
       PROVE  GoodAnswers(r)' /\ SavedIsUsable'
  <2>1. scope' = [scope EXCEPT ![r] = scope[r]] /\ UNCHANGED <<scope, promise>>
    BY <1>1, <1>10 DEF GlobalFetch
  <2>2. AwaitsPromise(r, scope[r], promise[r])
    BY <1>10 DEF GlobalFetch, Discipline
  <2>3. AwaitsPromise(r, scope[r], promise[r])'
    BY <2>1, <2>2 DEF AwaitsPromise
  <2> QED BY <1>1, <1>4, <1>8, <2>1, <2>3 DEF SavedIsUsable
<1>11. ASSUME NEW n \in Name, NEW v \in Outcome, SettlePromise(n, v)
       PROVE  GoodAnswers(r)' /\ SavedIsUsable'
  <2> DEFINE values == [promise[r] EXCEPT ![n] = v]
  <2>1. /\ scope' = [scope EXCEPT ![r] = scope[r]] /\ UNCHANGED <<scope, fetch>>
        /\ promise' = [promise EXCEPT ![r] = values]
        /\ promise[r][n] = "pending"
        /\ v # "rejected"
        /\ v = "other" => Saved(r) # <<r, n>>
        /\ FetchDue(r) => AwaitsPromise(r, scope[r], values)
    BY <1>1, <1>11 DEF SettlePromise, AwaitsFetches, Discipline, Saved
  <2> HIDE DEF values
  <2>2. promise'[r] = values /\ \A q \in Request : q # r => promise'[q] = promise[q]
    BY <1>1, <2>1
  <2>3. FetchDue(r)' => AwaitsPromise(r, scope[r], promise[r])'
    BY <2>1, <2>2 DEF FetchDue, FetchesOf, AwaitsPromise
  <2>4. GoodAnswers(r)'
    BY <1>4, <1>8, <2>1, <2>3
  <2>5. ASSUME NEW c \in Context, ctx[c].promise # None
        PROVE  promise'[ctx[c].promise[1]][ctx[c].promise[2]] \notin {"other", "rejected"}
    <3>1. PICK q \in Request, m \in Name : ctx[c].promise = <<q, m>>
      BY <1>3, <2>5
    <3>5. ctx[c].promise[1] = q /\ ctx[c].promise[2] = m
      BY <3>1
    <3>2. promise[q][m] \notin {"other", "rejected"}
      BY <1>1, <2>5, <3>5 DEF SavedIsUsable
    <3>3. CASE q # r \/ m # n
      <4>1. promise'[q][m] = promise[q][m]
        BY <1>1, <2>2, <3>3 DEF values
      <4> QED BY <3>2, <3>5, <4>1
    <3>4. CASE q = r /\ m = n
      <4>1. c = scope[r].context
        BY <1>3, <1>8, <2>5, <3>4, <3>5 DEF OwnOrDead
      <4>2. v # "other" /\ v # "rejected"
        BY <2>1, <3>1, <3>4, <4>1 DEF Saved
      <4>3. promise'[q][m] = v
        BY <1>1, <2>2, <3>4 DEF values
      <4> QED BY <3>5, <4>2, <4>3
    <3> QED BY <3>3, <3>4
  <2> QED BY <1>1, <2>4, <2>5 DEF SavedIsUsable
<1> QED BY <1>6, <1>7, <1>9, <1>10, <1>11

\* Every call of a disciplined script.
LEMMA ScriptKeepsDInv ==
    ASSUME Discipline, DInv, Script
    PROVE  DInv'
<1>1. PICK r \in Request : r = turn.req /\ Live(r) /\ ScriptEdit(r)
    BY ScriptEdits DEF DInv, AInv
<1>2. AInv' /\ fault' = "none"
    BY <1>1, NextKeepsAInv DEF DInv, Next, ScriptEdit
<1>3. InScript
    BY DEF Script, RespondWithResponse, RespondWithInvalid, RespondWithPromise,
           WaitUntil, SettlePromise, RejectListener, GlobalFetch, SetTimer, KillTimer
<1>4. CurrentScope = r
    BY <1>1, <1>3, CurrentScopeIsTurn DEF DInv, AInv
<1>5. \A q \in Request : q # r => GoodAnswers(q)'
    BY <1>1, OthersStayGood
<1>6. GoodAnswers(r)' /\ SavedIsUsable'
  <2>1. CASE \/ \E st \in Status : RespondWithResponse(st)
             \/ RespondWithInvalid
             \/ \E n \in Name, st \in Status : RespondWithPromise(n, st)
    BY <1>1, <1>4, <2>1, RespondWithKeepsGood
  <2>2. CASE \/ \E n \in Name : WaitUntil(n)
             \/ \E n \in Name, v \in Outcome : SettlePromise(n, v)
             \/ \E i \in 1 .. NListeners : RejectListener(i)
             \/ \E f \in Fetch : GlobalFetch(f)
             \/ \E t \in Timer, repeat \in Repeat : SetTimer(t, repeat)
             \/ \E t \in Timer : KillTimer(t)
    <3>1. UNCHANGED <<ctx, wire>>
      BY <2>2 DEF WaitUntil, SettlePromise, RejectListener, GlobalFetch, SetTimer, KillTimer
    <3> QED BY <1>1, <1>4, <2>2, <3>1, OtherCallsKeepGood
  <2> QED BY <2>1, <2>2 DEF Script
<1> QED BY <1>2, <1>5, <1>6 DEF DInv

\* A listener returns.  The last one leaves its event responded to.
LEMMA ListenerReturnsKeepsDInv ==
    ASSUME Discipline, DInv, NEW out \in Returns, ListenerReturns(out)
    PROVE  DInv'
<1>0. PICK r \in Request : r = turn.req
    BY DEF ListenerReturns, DInv, AInv, IInv, CallbacksConsistent
<1> DEFINE s == IF out = "failed" THEN SetError(scope[r])
                ELSE IF out = "pending"
                     THEN [scope[r] EXCEPT !.pending = @ \cup {turn.listener}]
                ELSE scope[r]
           last == turn.cancelled \/ LastListener(s.context, turn.listener)
<1>1. /\ turn.kind = "listener"
      /\ AwaitsFetches(r, s, promise[r])
      /\ last /\ "responds_once_in_handler" \in Habits => s.error \/ turn.cancelled
      /\ scope' = [scope EXCEPT ![r] = s]
      /\ turn' = IF last THEN NewTurn("respond", r, 0)
                 ELSE NewTurn("listener", r, turn.listener + 1)
      /\ UNCHANGED <<pool, ctx, fetch, timer, promise, wire, fault>>
    BY <1>0 DEF ListenerReturns
<1>2. /\ Live(r) /\ scope[r] \in ScopeType
      /\ scope \in [Request -> ScopeType]
      /\ GoodAnswers(r) /\ ~scope[r].sent /\ SavedIsUsable
    BY <1>0, <1>1 DEF DInv, AInv, IInv, TypeOK, CallbacksConsistent, HandlerHasNotSent
<1>3. /\ s.life = "live" /\ s.context = scope[r].context
      /\ ~s.sent /\ s.sent = scope[r].sent
      /\ s.response = scope[r].response
      /\ scope[r].error => s.error
    BY <1>2 DEF SetError, ScopeType, Live
<1>4. last => s.error \/ turn.cancelled
    BY <1>1 DEF Discipline
<1>5. ~last => ~turn.cancelled
    OBVIOUS
<1> HIDE DEF s, last
<1>6. /\ turn'.kind \in {"listener", "respond"} /\ turn'.req = r
      /\ last => turn'.kind = "respond"
      /\ ~last => turn'.kind = "listener" /\ ~turn'.cancelled
    BY <1>1 DEF NewTurn
<1>7. ScriptEdit(r)
  <2>1. scope' = [scope EXCEPT ![r] = s] /\ UNCHANGED <<ctx, fetch, promise, wire, fault>>
    BY <1>1
  <2>2. scope'[r] = s /\ \A q \in Request : q # r => scope'[q] = scope[q]
    BY <1>2, <2>1
  <2>3. InHandler' /\ InHandler
    BY <1>1, <1>6 DEF InHandler
  <2>4. turn.kind # "idle" /\ turn'.kind # "idle" /\ turn'.req = turn.req
    BY <1>0, <1>1, <1>6
  <2>5. s.life = scope[r].life
    BY <1>2, <1>3 DEF Live
  <2> QED BY <1>3, <2>1, <2>2, <2>3, <2>4, <2>5 DEF ScriptEdit
<1>8. AInv' /\ fault' = "none"
    BY <1>1, NextKeepsAInv DEF DInv, Next, EndOfTurn
<1>9. \A q \in Request : q # r => GoodAnswers(q)'
    BY <1>2, <1>7, OthersStayGood, <1>0
<1>10. GoodAnswers(r)'
  <2>1. scope'[r] = s /\ Live(r)' /\ HandlerOf(r)' /\ HandlerOf(r)
    BY <1>0, <1>1, <1>2, <1>3, <1>6 DEF Live, HandlerOf, InHandler
  <2>2. scope[r].response \in {None, r}
    BY <1>2, <2>1 DEF GoodAnswers
  <2>3. Saved(r)' = Saved(r)
    BY <1>1, <1>3, <2>1 DEF Saved
  <2>4. FetchDue(r)' => AwaitsPromise(r, scope[r], promise[r])'
    BY <1>1, <2>1 DEF AwaitsFetches, Discipline, FetchDue, FetchesOf, AwaitsPromise
  <2>5. MayStillRespond(r)' => NotOwn(r)'
    BY <1>0, <1>1, <1>2, <1>5, <1>6, <2>3 DEF MayStillRespond, NotOwn, GoodAnswers
  <2>6. ~MayStillRespond(r)' => Responded(r)'
    <3> SUFFICES ASSUME ~MayStillRespond(r)' PROVE Responded(r)'
      OBVIOUS
    <3>1. s.error \/ turn.cancelled
      BY <1>4, <1>6 DEF MayStillRespond
    <3>2. CASE s.error
      BY <2>1, <3>2 DEF Responded
    <3>3. CASE turn.cancelled
      <4>1. Responded(r)
        BY <1>2, <3>3 DEF GoodAnswers, MayStillRespond
      <4> QED BY <1>2, <1>3, <2>1, <2>3, <4>1 DEF Responded, NotOfAnother
    <3> QED BY <3>1, <3>2, <3>3
  <2> QED BY <1>3, <2>1, <2>2, <2>4, <2>5, <2>6 DEF GoodAnswers
<1>11. SavedIsUsable'
    BY <1>1, <1>2 DEF SavedIsUsable
<1> QED BY <1>8, <1>9, <1>10, <1>11 DEF DInv

-----------------------------------------------------------------------------
(* The ends of callbacks.                                                  *)

\* A promised response that handle_waitings uses is a Response, and of a scope
\* that lives.
LEMMA PromisedIsUsable ==
    ASSUME DInv, NEW r \in Request, Live(r), NEW s,
           s.runtime = scope[r].context, ~s.sent => NotOfAnother(r)
    PROVE  WaitingsFault(s) = "none"
<1> DEFINE saved == Promised(s)
           c == scope[r].context
<1> SUFFICES ASSUME saved # None PROVE WaitingsFault(s) = "none"
    BY DEF WaitingsFault
<1>1. c \in Context
    BY DEF DInv, AInv, IInv, ContextOwnership
<1>2. saved = Saved(r) /\ saved = ctx[c].promise /\ ~s.sent
    BY DEF Promised, Saved
<1>3. promise[saved[1]][saved[2]] # "other"
    BY <1>1, <1>2 DEF DInv, SavedIsUsable
<1>4. scope[saved[1]].life # "dead"
    BY <1>2 DEF NotOfAnother, Live
<1> QED BY <1>3, <1>4 DEF WaitingsFault

\* A turn of r ends with the fields s of its scope and left as t.
LEMMA TurnEndKeepsDInv ==
    ASSUME DInv, AInv', NEW r \in Request, Live(r), turn.req = r,
           NEW s \in ScopeType, NEW t \in ScopeType, s.waits = scope[r].waits,
           NEW said \in Seq(Request),
           s.sent => said = <<r>>, ~s.sent => said = <<>> /\ NotOfAnother(r),
           s.error => s.sent,
           scope[r].sent \/ scope[r].error \/ scope[r].response # None
              \/ (~s.sent /\ s.response = None),
           TurnSettles(r, s, t, said), s.context = scope[r].context,
           turn' = Idle, UNCHANGED promise
    PROVE  DInv'
<1>1. /\ scope \in [Request -> ScopeType] /\ wire \in [Request -> Seq(Request)]
      /\ ctx \in [Context -> ContextType] /\ scope[r].context \in Context
      /\ \A q \in Request : GoodAnswers(q)
      /\ SavedIsUsable
    BY DEF DInv, AInv, IInv, TypeOK, ContextOwnership
<1>2. PICK w : wire' = [wire EXCEPT ![r] = w] /\ Answers(s, t, said, w)
    BY DEF TurnSettles
<1>3. PICK u : /\ scope' = [scope EXCEPT ![r] = u]
               /\ \/ u = t
                  \/ /\ u = DeadScope(t) /\ t.sent
                     /\ \A n \in t.waits : promise[r][n] \in Fulfilled
    BY DEF TurnSettles, Left
<1>4. /\ \A c \in Context : /\ ctx'[c].promise = ctx[c].promise
                            /\ ctx'[c].listeners = ctx[c].listeners
      /\ fault' = "none" /\ FetchesSent(r)
      /\ t.context = scope[r].context /\ t.waits = s.waits
      /\ s.sent => t.sent
      /\ t.error => t.sent
      /\ s.sent \/ s.error \/ SavedFulfilled(scope[r].context) \/ t = s
    BY DEF TurnSettles, Left
<1>5. /\ DeadScope(t).life = "dead" /\ DeadScope(t).sent = t.sent
    BY DEF DeadScope, NoScope, ScopeWith
<1>6. \A q \in Request : ~HandlerOf(q)'
    BY DEF HandlerOf, InHandler, Idle, NewTurn
<1>7. \A q \in Request : FetchDue(q)' => FetchDue(q)
    BY <1>4 DEF FetchesSent, FetchDue, FetchesOf
<1>8. ASSUME NEW q \in Request, q # r
      PROVE  GoodAnswers(q)'
  <2>1. scope'[q] = scope[q] /\ wire'[q] = wire[q] /\ ~HandlerOf(q)
    BY <1>1, <1>2, <1>3, <1>8 DEF HandlerOf
  <2>2. Live(q) => ctx'[scope[q].context].promise = ctx[scope[q].context].promise
    BY <1>4 DEF DInv, AInv, IInv, ContextOwnership
  <2> QED BY <1>1, <1>6, <1>7, <2>1, <2>2, FrameKeepsGood
<1>9. SavedIsUsable'
    BY <1>1, <1>4 DEF SavedIsUsable
<1>10. scope'[r] = u /\ wire'[r] = w /\ u.sent = t.sent
    BY <1>1, <1>2, <1>3, <1>5
<1>11. t.sent => w = <<r>>
  <2>1. CASE w = said /\ (t.sent => s.sent \/ s.error)
    BY <2>1
  <2>2. ASSUME ~s.sent, ctx[s.context].promise # None,
               \E x \in Request : x = ctx[s.context].promise[1] /\ w = Append(said, x)
        PROVE  w = <<r>>
    <3>1. ctx[s.context].promise[1] = r /\ said = <<>>
      BY <2>2 DEF NotOfAnother, Saved
    <3>2. w = Append(<<>>, r)
      BY <2>2, <3>1
    <3> QED BY <3>2
  <2> QED BY <1>2, <2>1, <2>2 DEF Answers
<1>12. Live(r)' => u = t
    BY <1>3, <1>5, <1>10 DEF Live
<1>13. Live(r)' => Saved(r)' = Saved(r)
    BY <1>1, <1>4, <1>10, <1>12 DEF Saved
<1>14. Live(r)' => Responded(r)'
    BY <1>4, <1>10, <1>12, <1>13 DEF Responded, NotOfAnother
<1>15. ASSUME FetchDue(r)'
       PROVE  Live(r)' /\ AwaitsPromise(r, scope[r], promise[r])'
  <2>1. PICK n \in Name :
          /\ promise[r][n] = "pending"
          /\ \/ n \in scope[r].waits
             \/ /\ ~scope[r].sent /\ ~scope[r].error /\ scope[r].response = None
                /\ ctx[scope[r].context].promise = <<r, n>>
    BY <1>1, <1>7, <1>15 DEF GoodAnswers, AwaitsPromise
  <2>2. promise[r][n] \notin Fulfilled
    BY <2>1 DEF Fulfilled
  <2>3. CASE n \in scope[r].waits
    <3>1. u = t /\ n \in u.waits
      BY <1>3, <1>4, <2>2, <2>3
    <3>2. u.life = "live"
      BY <3>1 DEF TurnSettles
    <3> QED BY <1>10, <2>1, <3>1, <3>2 DEF Live, AwaitsPromise
  <2>4. CASE /\ ~scope[r].sent /\ ~scope[r].error /\ scope[r].response = None
             /\ ctx[scope[r].context].promise = <<r, n>>
    <3> DEFINE saved == <<r, n>>
    <3>1. saved[1] = r /\ saved[2] = n /\ ctx[scope[r].context].promise = saved
      BY <2>4
    <3> HIDE DEF saved
    <3>2. ~SavedFulfilled(scope[r].context)
      BY <2>2, <3>1 DEF SavedFulfilled
    <3>3. t = s /\ ~s.sent /\ ~s.error /\ s.response = None
      BY <1>4, <2>4, <3>2
    <3>4. u = t /\ t.life = "live"
      BY <1>3, <3>3 DEF TurnSettles
    <3>5. ctx'[t.context].promise = <<r, n>>
      BY <1>1, <1>4, <2>4
    <3> QED BY <1>10, <2>1, <3>3, <3>4, <3>5 DEF Live, AwaitsPromise
  <2> QED BY <2>1, <2>3, <2>4
<1>16. GoodAnswers(r)'
  <2>1. ~MayStillRespond(r)'
    BY <1>6 DEF MayStillRespond, HandlerOf, InHandler
  <2>2. scope'[r].sent => wire'[r] = <<r>>
    BY <1>10, <1>11
  <2>3. Live(r)' /\ scope'[r].error => scope'[r].sent
    BY <1>4, <1>10, <1>12
  <2> QED BY <1>6, <1>14, <1>15, <2>1, <2>2, <2>3 DEF GoodAnswers
<1> QED BY <1>4, <1>8, <1>9, <1>16 DEF DInv

\* handle_waitings, as the end of both.
LEMMA WaitingsKeepDInv ==
    ASSUME DInv, AInv', NEW r \in Request, Live(r), turn.req = r,
           NEW s \in ScopeType, s.life = "live", s.waits = scope[r].waits,
           s.context = scope[r].context, s.runtime = scope[r].context,
           NEW said \in Seq(Request), NEW fin,
           s.sent => said = <<r>>, ~s.sent => said = <<>> /\ NotOfAnother(r),
           s.error => s.sent,
           scope[r].sent \/ scope[r].error \/ scope[r].response # None
              \/ (~s.sent /\ s.response = None),
           HandleWaitings(r, s, said, fin),
           turn' = Idle, UNCHANGED promise
    PROVE  DInv'
<1>1. IInv /\ fault = "none"
    BY DEF DInv, AInv
<1>2. fault' = "none"
    BY <1>1, PromisedIsUsable DEF HandleWaitings
<1>3. PICK t \in ScopeType : TurnSettles(r, s, t, said)
    BY <1>1, <1>2, HandleWaitingsSettles
<1> QED BY <1>3, TurnEndKeepsDInv

\* The handler ends: what it says is its own.
LEMMA RespondKeepsDInv ==
    ASSUME DInv, Respond
    PROVE  DInv'
<1> DEFINE r == turn.req
           before == scope[r]
           s == HandleResponse(before)
           status == ResponseStatus(before)
           said == IF Writes(before) THEN Append(wire[r], before.response)
                   ELSE IF status # 0 THEN Append(wire[r], r)
                   ELSE wire[r]
           waiting == SetRuntimeContext(s)
           nofetch == {}
<1>1. /\ turn.kind = "respond" /\ turn' = Idle /\ UNCHANGED promise
      /\ IF status # 0 /\ AllWaitUntilsDone(s, promise[r])
         THEN /\ Destroy(r, s, fetch, s.context)
              /\ wire' = [wire EXCEPT ![r] = said]
              /\ UNCHANGED fault
         ELSE HandleWaitings(r, waiting, said, nofetch)
    BY DEF Respond
<1>2. /\ IInv /\ r \in Request /\ Live(r) /\ before \in ScopeType
      /\ before.life = "live" /\ before.context \in Context
      /\ GoodAnswers(r) /\ HandlerOf(r) /\ ~MayStillRespond(r)
    BY <1>1 DEF DInv, AInv, IInv, TypeOK, CallbacksConsistent, ContextOwnership, Live,
                HandlerOf, InHandler, MayStillRespond
<1>3. ~before.sent /\ wire[r] = <<>>
    BY <1>1, <1>2 DEF DInv, AInv, HandlerHasNotSent, SentMarksAnswer
<1>4. AInv'
    BY NextKeepsAInv DEF DInv, Next, EndOfTurn
<1>5. /\ s \in ScopeType /\ s.life = "live" /\ s.context = before.context
      /\ s.waits = before.waits /\ s.error = before.error
      /\ s.response = before.response
      /\ s.sent = (before.error \/ before.response # None)
    BY <1>2, <1>3 DEF HandleResponse, ScopeType
<1>6. before.response \in {None, r} /\ Responded(r)
    BY <1>2 DEF GoodAnswers
<1>7. ~s.sent => NotOfAnother(r)
    BY <1>2, <1>3, <1>5, <1>6, NoneAssumption DEF Responded
<1>8. /\ s.sent => said = <<r>>
      /\ ~s.sent => said = <<>>
      /\ status # 0 => s.sent
  <2>1. Writes(before) <=> (~before.error /\ before.response # None)
    BY <1>3 DEF Writes
  <2>2. before.error => status # 0
    BY DEF ResponseStatus, InternalServerError
  <2>3. status # 0 => before.error \/ before.response # None
    BY DEF ResponseStatus
  <2>4. Append(<<>>, r) = <<r>>
    OBVIOUS
  <2>5. Writes(before) => before.response = r
    BY <1>6, <2>1
  <2> HIDE DEF status, s
  <2> QED BY <1>3, <1>5, <2>1, <2>2, <2>3, <2>4, <2>5
<1>9. said \in Seq(Request)
  <2>1. <<r>> \in Seq(Request) /\ <<>> \in Seq(Request)
    BY <1>2
  <2> HIDE DEF said, s
  <2> QED BY <1>5, <1>8, <2>1
<1>10. s.error => s.sent
    BY <1>5
<1>11. CASE status # 0 /\ AllWaitUntilsDone(s, promise[r])
  <2>1. /\ Destroy(r, s, fetch, s.context)
        /\ wire' = [wire EXCEPT ![r] = said]
        /\ UNCHANGED fault
    BY <1>1, <1>11
  <2>2. s.sent /\ \A n \in s.waits : promise[r][n] \in Fulfilled
    BY <1>8, <1>11 DEF AllWaitUntilsDone
  <2>3. TurnSettles(r, s, s, said)
    BY <1>2, <1>5, <1>9, <2>1, <2>2, DestroySettles DEF DInv
  <2> HIDE DEF said, status, s
  <2> QED BY <1>1, <1>2, <1>4, <1>5, <1>7, <1>8, <1>9, <1>10, <2>3, TurnEndKeepsDInv
<1>12. CASE ~(status # 0 /\ AllWaitUntilsDone(s, promise[r]))
  <2>1. HandleWaitings(r, waiting, said, nofetch)
    BY <1>1, <1>12
  <2> HIDE DEF said, status, s, nofetch
  <2>2. /\ waiting \in ScopeType /\ waiting.life = "live"
        /\ waiting.context = scope[r].context /\ waiting.runtime = scope[r].context
        /\ waiting.sent = s.sent /\ waiting.error = s.error
        /\ waiting.waits = s.waits /\ waiting.response = s.response
    BY <1>2, <1>5 DEF SetRuntimeContext, ScopeType
  <2> HIDE DEF waiting
  <2> QED BY <1>1, <1>2, <1>4, <1>5, <1>7, <1>8, <1>9, <1>10, <2>1, <2>2,
             WaitingsKeepDInv
<1> QED BY <1>11, <1>12

\* The callback of a timer or of a fetch ends.
LEMMA CallbackReturnsKeepsDInv ==
    ASSUME DInv, CallbackReturns
    PROVE  DInv'
<1> DEFINE r == turn.req
           s == scope[r]
           said == wire[r]
           fin == {f \in Fetch : fetch[f].state = "running"}
<1>1. /\ turn.kind \in {"timer", "fetch"} /\ turn' = Idle /\ UNCHANGED promise
      /\ HandleWaitings(r, s, said, fin)
    BY DEF CallbackReturns
<1>2. /\ r \in Request /\ Live(r) /\ s \in ScopeType
      /\ s.life = "live" /\ s.context = scope[r].context
      /\ s.runtime = scope[r].context /\ said \in Seq(Request)
      /\ ~s.sent => said = <<>>
      /\ GoodAnswers(r) /\ ~HandlerOf(r) /\ ~MayStillRespond(r)
    BY <1>1 DEF DInv, AInv, IInv, TypeOK, CallbacksConsistent, Live, SentMarksAnswer,
                HandlerOf, InHandler, MayStillRespond
<1>3. /\ s.sent => said = <<r>>
      /\ ~s.sent => NotOfAnother(r)
      /\ s.error => s.sent
    BY <1>2 DEF GoodAnswers, Responded
<1>4. AInv'
    BY NextKeepsAInv DEF DInv, Next, EndOfTurn
<1> HIDE DEF fin
<1> QED BY <1>1, <1>2, <1>3, <1>4, WaitingsKeepDInv

-----------------------------------------------------------------------------
(* The beginnings of callbacks, and the theorems.                          *)

\* A request comes: nothing in its new scope is due, and no promise is its own.
LEMMA HandleHttpRequestKeepsDInv ==
    ASSUME DInv, NEW r \in Request, HandleHttpRequest(r)
    PROVE  DInv'
<1>1. PICK c \in Context : \E x \in FreshContexts \cup {ctx[c]} :
        /\ GetContext(c, x)
        /\ ctx' = [ctx EXCEPT ![c] = [x EXCEPT !.scope = r]]
        /\ scope' = [scope EXCEPT ![r] = NewScope(c)]
        /\ turn' = IF x.listeners = 0 THEN NewTurn("respond", r, 0)
                   ELSE NewTurn("listener", r, 1)
    BY DEF HandleHttpRequest
<1>2. PICK x \in FreshContexts \cup {ctx[c]} :
        /\ GetContext(c, x)
        /\ ctx' = [ctx EXCEPT ![c] = [x EXCEPT !.scope = r]]
        /\ scope' = [scope EXCEPT ![r] = NewScope(c)]
        /\ turn' = IF x.listeners = 0 THEN NewTurn("respond", r, 0)
                   ELSE NewTurn("listener", r, 1)
    BY <1>1
<1>3. /\ IInv /\ turn.kind = "idle" /\ scope[r].life = "none"
      /\ scope \in [Request -> ScopeType] /\ ctx \in [Context -> ContextType]
      /\ UNCHANGED <<fetch, timer, promise, wire, fault>>
      /\ SavedIsUsable /\ \A q \in Request : GoodAnswers(q)
    BY DEF HandleHttpRequest, DInv, AInv, IInv, TypeOK
<1>4. x \in ContextType /\ ~Held(c)
    BY <1>2, <1>3, GetContextFacts
<1>5. x.promise = None \/ x = ctx[c]
    BY <1>2 DEF FreshContexts, MakeContext
<1> DEFINE y == [x EXCEPT !.scope = r]
<1>6. ctx' = [ctx EXCEPT ![c] = y] /\ y.promise = x.promise /\ y.listeners = x.listeners
    BY <1>2, <1>4 DEF ContextType
<1> HIDE DEF y
<1>7. /\ NewScope(c).life = "live" /\ NewScope(c).context = c /\ ~NewScope(c).sent
      /\ ~NewScope(c).error /\ NewScope(c).response = None
    BY DEF NewScope, ScopeWith
<1>8. /\ turn'.req = r /\ ~turn'.cancelled
      /\ x.listeners = 0 => turn'.kind = "respond"
      /\ x.listeners # 0 => turn'.kind = "listener"
    BY <1>2 DEF NewTurn
<1>9. AInv' /\ fault' = "none"
    BY <1>3, NextKeepsAInv DEF DInv, Next, Loop
<1>10. SavedIsUsable'
  <2>1. ASSUME NEW d \in Context, ctx'[d].promise # None
        PROVE  ctx'[d].promise = ctx[d].promise /\ ctx'[d].listeners = ctx[d].listeners
    BY <1>3, <1>5, <1>6, <2>1
  <2> QED BY <1>3, <2>1 DEF SavedIsUsable
<1>11. ASSUME NEW q \in Request, q # r
       PROVE  GoodAnswers(q)'
  <2>1. scope'[q] = scope[q] /\ ~HandlerOf(q) /\ ~HandlerOf(q)'
    BY <1>2, <1>3, <1>8, <1>11 DEF HandlerOf, InHandler
  <2>2. Live(q) => ctx'[scope[q].context].promise = ctx[scope[q].context].promise
    BY <1>3, <1>4, <1>6 DEF Held, IInv, ContextOwnership
  <2>3. FetchDue(q)' => FetchDue(q)
    BY <1>3 DEF FetchDue, FetchesOf
  <2> QED BY <1>3, <1>11, <2>1, <2>2, <2>3, FrameKeepsGood
<1>12. GoodAnswers(r)'
  <2>1. scope'[r] = NewScope(c) /\ ctx'[c] = y
    BY <1>2, <1>3, <1>6
  <2>2. HandlerOf(r)'
    BY <1>8 DEF HandlerOf, InHandler
  <2>3. ~FetchDue(r)'
    BY <1>3 DEF FetchDue, FetchesOf, Unfinished, IInv, FetchReferences, NoFetch
  <2>4. Saved(r)' = x.promise
    BY <1>6, <1>7, <2>1 DEF Saved
  <2>5. NotOwn(r)'
    <3>1. CASE x.promise = None
      BY <2>4, <3>1 DEF NotOwn
    <3>2. CASE x = ctx[c] /\ x.promise # None
      <4>1. OwnOrDead(c, x.promise[1])
        BY <3>2 DEF DInv, AInv, SavedIsOwnOrDead
      <4>2. x.promise[1] # r
        BY <1>3, <4>1 DEF OwnOrDead
      <4> QED BY <2>4, <4>2 DEF NotOwn
    <3> QED BY <1>5, <3>1, <3>2
  <2>6. x.listeners = 0 => NotOfAnother(r)'
    <3>1. x.listeners = 0 => x.promise = None
      BY <1>3, <1>5 DEF SavedIsUsable
    <3> QED BY <2>4, <3>1 DEF NotOfAnother
  <2>7. ~MayStillRespond(r)' => Responded(r)'
    BY <1>8, <2>6 DEF MayStillRespond, Responded
  <2> QED BY <1>7, <2>1, <2>2, <2>3, <2>5, <2>7 DEF GoodAnswers
<1> QED BY <1>9, <1>10, <1>11, <1>12 DEF DInv

\* A step that leaves scopes, contexts and promises alone, and makes no fetch
\* due; it may begin a callback that is not the handler.
LEMMA CallKeepsDInv ==
    ASSUME DInv, AInv', UNCHANGED <<ctx, scope, promise, wire, fault>>,
           UNCHANGED turn \/ (turn.kind = "idle" /\ turn'.kind \in {"timer", "fetch"}),
           \A f \in Fetch : Unfinished(fetch'[f]) =>
               fetch'[f].scope = fetch[f].scope /\ Unfinished(fetch[f])
    PROVE  DInv'
<1>1. SavedIsUsable' /\ fault' = "none"
    BY DEF DInv, SavedIsUsable
<1>2. ASSUME NEW r \in Request
      PROVE  GoodAnswers(r)'
  <2>1. FetchDue(r)' => FetchDue(r)
    BY DEF FetchDue, FetchesOf
  <2>2. /\ HandlerOf(r)' <=> HandlerOf(r)
        /\ MayStillRespond(r)' <=> MayStillRespond(r)
    BY DEF HandlerOf, InHandler, MayStillRespond
  <2>3. /\ Live(r)' <=> Live(r)
        /\ Responded(r)' <=> Responded(r)
        /\ NotOwn(r)' <=> NotOwn(r)
        /\ AwaitsPromise(r, scope[r], promise[r])' <=> AwaitsPromise(r, scope[r], promise[r])
    BY <2>2 DEF Live, Responded, NotOwn, NotOfAnother, Saved, AwaitsPromise
  <2> QED BY <2>1, <2>2, <2>3 DEF DInv, GoodAnswers
<1> QED BY <1>1, <1>2 DEF DInv

\* A timer fires for a scope that lives, and so does an answered fetch: while
\* one is due, its scope awaits a promise.
LEMMA NextKeepsDInv == Discipline /\ DInv /\ [Next]_vars => DInv'
<1> SUFFICES ASSUME Discipline, DInv, [Next]_vars PROVE DInv'
    OBVIOUS
<1>1. AInv' /\ AInv /\ IInv /\ fetch \in [Fetch -> FetchType]
    BY NextKeepsAInv DEF DInv, AInv, IInv, TypeOK
<1>2. ASSUME NEW t \in Timer, TimerExecute(t)
      PROVE  DInv'
  <2>1. scope[timer[t].scope].life # "dead"
    BY <1>1, <1>2 DEF TimerExecute, IInv, TimersDieWithScope, Live
  <2> QED BY <1>1, <1>2, <2>1, CallKeepsDInv DEF TimerExecute, NewTurn
<1>3. ASSUME NEW f \in Fetch, FulfillPromise(f)
      PROVE  DInv'
  <2>1. fetch[f].state = "queued" /\ fetch[f].scope \in Request
    BY <1>1, <1>3 DEF FulfillPromise, IInv, FetchReferences
  <2>2. scope[fetch[f].scope].life # "dead"
    BY <2>1 DEF DInv, GoodAnswers, FetchDue, FetchesOf, Unfinished, Live
  <2>3. /\ UNCHANGED <<ctx, scope, promise, wire, fault>> /\ turn.kind = "idle"
        /\ turn'.kind = "fetch"
        /\ fetch' = [fetch EXCEPT ![f] = Started(@)]
    BY <1>3, <2>2 DEF FulfillPromise, NewTurn
  <2>4. ~Unfinished(Started(fetch[f]))
    BY <1>1 DEF Started, FetchType, Unfinished
  <2> QED BY <1>1, <2>3, <2>4, CallKeepsDInv
<1>4. ASSUME NEW f \in Fetch, SendAsyncDone(f) \/ SendAsyncFailed(f)
      PROVE  DInv'
  <2>1. /\ UNCHANGED <<ctx, scope, promise, wire, turn, fault>>
        /\ Unfinished(fetch[f])
        /\ \E x \in {Answered(fetch[f]), Unanswered(fetch[f])} :
              fetch' = [fetch EXCEPT ![f] = x]
    BY <1>4 DEF SendAsyncDone, SendAsyncFailed, Unfinished
  <2>2. \A x \in {Answered(fetch[f]), Unanswered(fetch[f])} : x.scope = fetch[f].scope
    BY <1>1 DEF Answered, Unanswered, FetchType
  <2> QED BY <1>1, <2>1, <2>2, CallKeepsDInv
<1>5. ASSUME UNCHANGED vars
      PROVE  DInv'
    BY <1>1, <1>5, CallKeepsDInv DEF vars
<1> QED BY <1>2, <1>3, <1>4, <1>5, ScriptKeepsDInv, ListenerReturnsKeepsDInv,
           RespondKeepsDInv, CallbackReturnsKeepsDInv, HandleHttpRequestKeepsDInv
        DEF Next, EndOfTurn, Loop, Client

\* DInv holds for every script with the three habits.
LEMMA DisciplinedInvariance == ASSUME Discipline PROVE Spec => []DInv
<1>1. Init => DInv
    BY InitDInv
<1>2. DInv /\ [Next]_vars => DInv'
    BY NextKeepsDInv
<1> QED BY <1>1, <1>2, PTL DEF Spec

\* Under these habits no callback uses a scope or a response that is gone, and
\* no promised value is cast wrongly: the unchecked pointers of timers, fetches
\* and promised responses are safe in every interleaving of the callbacks.
THEOREM DisciplinedScriptsDoNotFault ==
    ASSUME Discipline
    PROVE  Spec => []NoFault
<1>1. DInv => NoFault
    BY DEF DInv, NoFault
<1> QED BY DisciplinedInvariance, <1>1, PTL

\* Under these habits a response marked as sent has reached its client.
THEOREM DisciplinedAnswersArrive ==
    ASSUME Discipline
    PROVE  Spec => []SentReachesClient
<1>1. ASSUME NEW r \in Request
      PROVE  Len(<<r>>) = 1
    OBVIOUS
<1>2. DInv => SentReachesClient
    BY <1>1 DEF DInv, GoodAnswers, SentReachesClient
<1> QED BY DisciplinedInvariance, <1>2, PTL

\* Under these habits a client never gets the answer of another request from
\* the promise left in a pooled context (respose_promise_).
THEOREM DisciplinedAnswersAreOwn ==
    ASSUME Discipline
    PROVE  Spec => []OwnAnswer
<1>1. ASSUME DInv, NEW r \in Request, NEW i \in DOMAIN wire[r]
      PROVE  wire[r][i] = r
  <2>1. scope[r].sent
    BY <1>1 DEF DInv, AInv, SentMarksAnswer
  <2>2. wire[r] = <<r>>
    BY <1>1, <2>1 DEF DInv, GoodAnswers
  <2> QED BY <1>1, <2>2
<1>2. DInv => OwnAnswer
    BY <1>1 DEF OwnAnswer
<1> QED BY DisciplinedInvariance, <1>2, PTL
-----------------------------------------------------------------------------
(* WorkerLoop implements HttpExchange.  Each step moves one request at     *)
(* most, and one whose response is sent keeps it.                          *)

ExchangeStep == [Exchange!Next]_<<RequestPhase, wire>>

\* What a step does to the request r, and that it does it to no other.
MovesOnly(r) ==
    \A q \in Request : q # r =>
        /\ scope'[q].life = scope[q].life /\ scope'[q].sent = scope[q].sent
        /\ wire'[q] = wire[q]

\* What happens to one live request is a step of the exchange, or none.
LEMMA OneRequestMoves ==
    ASSUME DInv, DInv', NEW r \in Request, MovesOnly(r), Live(r),
           scope'[r].life \in {"live", "dead"},
           scope[r].sent => scope'[r].sent
    PROVE  ExchangeStep
<1>1. wire \in [Request -> Seq(Request)] /\ wire' \in [Request -> Seq(Request)]
    BY DEF DInv, AInv, IInv, TypeOK
<1>2. \A q \in Request : q # r => PhaseOf(scope'[q]) = PhaseOf(scope[q])
    BY DEF MovesOnly, PhaseOf
<1>3. /\ scope[r].sent => wire[r] = <<r>>
      /\ ~scope[r].sent => wire[r] = <<>>
      /\ scope'[r].sent => wire'[r] = <<r>>
      /\ ~scope'[r].sent => wire'[r] = <<>>
      /\ scope'[r].life = "dead" => scope'[r].sent
    BY DEF DInv, AInv, GoodAnswers, SentMarksAnswer, DeadScopeSettled
<1>4. /\ PhaseOf(scope[r]) = IF scope[r].sent THEN "answered" ELSE "open"
      /\ PhaseOf(scope'[r]) = IF scope'[r].life = "dead" THEN "closed"
                              ELSE IF scope'[r].sent THEN "answered" ELSE "open"
    BY DEF PhaseOf, Live
<1>5. /\ RequestPhase[r] = PhaseOf(scope[r])
      /\ RequestPhase' = [RequestPhase EXCEPT ![r] = PhaseOf(scope'[r])]
    BY <1>2 DEF RequestPhase
<1>6. wire' = [wire EXCEPT ![r] = wire'[r]]
    BY <1>1 DEF MovesOnly
<1>7. CASE scope[r].sent
  <2>1. UNCHANGED wire
    BY <1>1, <1>3, <1>6, <1>7
  <2>2. CASE scope'[r].life = "dead"
    BY <1>4, <1>5, <1>7, <2>1, <2>2 DEF ExchangeStep, Exchange!Next, Exchange!Close
  <2>3. CASE scope'[r].life = "live"
    <3>1. RequestPhase' = RequestPhase
      BY <1>4, <1>5, <1>7, <2>3 DEF RequestPhase
    <3> QED BY <2>1, <3>1 DEF ExchangeStep
  <2> QED BY <2>2, <2>3
<1>8. CASE ~scope[r].sent /\ ~scope'[r].sent
  <2>1. UNCHANGED wire
    BY <1>1, <1>3, <1>6, <1>8
  <2>2. RequestPhase' = RequestPhase
    BY <1>3, <1>4, <1>5, <1>8 DEF RequestPhase
  <2> QED BY <2>1, <2>2 DEF ExchangeStep
<1>9. CASE ~scope[r].sent /\ scope'[r].sent
  <2>1. Append(<<>>, r) = <<r>>
    OBVIOUS
  <2>2. wire' = [wire EXCEPT ![r] = Append(@, r)]
    BY <1>1, <1>3, <1>6, <1>9, <2>1
  <2>3. RequestPhase[r] = "open" /\ PhaseOf(scope'[r]) \in {"answered", "closed"}
    BY <1>4, <1>5, <1>9
  <2>4. Exchange!Answer(r)
    BY <1>5, <2>2, <2>3 DEF Exchange!Answer
  <2> QED BY <2>4 DEF ExchangeStep, Exchange!Next
<1> QED BY <1>7, <1>8, <1>9

\* The end of a turn of r: the scope, with the fields s, is left as t.
LEMMA TurnEndMoves ==
    ASSUME DInv, DInv', NEW r \in Request, Live(r), NEW s, NEW t, NEW said,
           scope[r].sent => s.sent, TurnSettles(r, s, t, said)
    PROVE  ExchangeStep
<1>1. scope \in [Request -> ScopeType] /\ wire \in [Request -> Seq(Request)]
    BY DEF DInv, AInv, IInv, TypeOK
<1>2. PICK w : wire' = [wire EXCEPT ![r] = w]
    BY DEF TurnSettles
<1>3. PICK u \in {t, DeadScope(t)} : scope' = [scope EXCEPT ![r] = u]
    BY DEF TurnSettles, Left
<1>4. u.life \in {"live", "dead"} /\ u.sent = t.sent
    BY DEF TurnSettles, DeadScope, NoScope, ScopeWith
<1>5. MovesOnly(r) /\ scope'[r] = u
    BY <1>1, <1>2, <1>3 DEF MovesOnly
<1> QED BY <1>4, <1>5, OneRequestMoves DEF TurnSettles

\* handle_waitings ends a turn.
LEMMA HandleWaitingsMoves ==
    ASSUME DInv, DInv', NEW r \in Request, Live(r),
           NEW s \in ScopeType, s.life = "live",
           s.context = scope[r].context, s.runtime = scope[r].context,
           scope[r].sent => s.sent, NEW said \in Seq(Request), NEW fin,
           HandleWaitings(r, s, said, fin), UNCHANGED promise
    PROVE  ExchangeStep
<1>1. PICK t \in ScopeType : TurnSettles(r, s, t, said)
    BY HandleWaitingsSettles DEF DInv, AInv
<1> QED BY <1>1, TurnEndMoves

\* The handler ends with the answer, or goes on waiting.
LEMMA RespondMoves ==
    ASSUME DInv, DInv', Respond
    PROVE  ExchangeStep
<1> DEFINE r == turn.req
           before == scope[r]
           s == HandleResponse(before)
           status == ResponseStatus(before)
           said == IF Writes(before) THEN Append(wire[r], before.response)
                   ELSE IF status # 0 THEN Append(wire[r], r)
                   ELSE wire[r]
           waiting == SetRuntimeContext(s)
           nofetch == {}
<1>1. /\ turn.kind = "respond" /\ turn' = Idle /\ UNCHANGED promise
      /\ IF status # 0 /\ AllWaitUntilsDone(s, promise[r])
         THEN /\ Destroy(r, s, fetch, s.context)
              /\ wire' = [wire EXCEPT ![r] = said]
              /\ UNCHANGED fault
         ELSE HandleWaitings(r, waiting, said, nofetch)
    BY DEF Respond
<1>2. /\ IInv /\ fault = "none"
      /\ r \in Request /\ Live(r) /\ before \in ScopeType
      /\ before.life = "live" /\ before.context \in Context
      /\ ~before.sent /\ wire[r] = <<>>
    BY <1>1 DEF DInv, AInv, IInv, TypeOK, CallbacksConsistent, ContextOwnership, Live,
                HandlerHasNotSent, SentMarksAnswer
<1>3. /\ s \in ScopeType /\ s.life = "live" /\ s.context = before.context
      /\ s.waits = before.waits
      /\ s.sent = (before.error \/ before.response # None)
    BY <1>2 DEF HandleResponse, ScopeType
<1>4. status # 0 => s.sent
    BY <1>3 DEF ResponseStatus
<1>5. said \in Seq(Request)
  <2>1. Writes(before) => before.response \in Request
    BY <1>2 DEF Writes, ScopeType
  <2>2. wire[r] \in Seq(Request) /\ \A q \in Request : Append(wire[r], q) \in Seq(Request)
    BY <1>2
  <2> QED BY <1>2, <2>1, <2>2
<1>6. CASE status # 0 /\ AllWaitUntilsDone(s, promise[r])
  <2>1. /\ Destroy(r, s, fetch, s.context)
        /\ wire' = [wire EXCEPT ![r] = said]
        /\ UNCHANGED fault
        /\ s.sent /\ \A n \in s.waits : promise[r][n] \in Fulfilled
    BY <1>1, <1>4, <1>6 DEF AllWaitUntilsDone
  <2> HIDE DEF said, status, s
  <2>2. TurnSettles(r, s, s, said)
    BY <1>2, <1>3, <2>1, DestroySettles
  <2> QED BY <1>2, <2>2, TurnEndMoves
<1>7. CASE ~(status # 0 /\ AllWaitUntilsDone(s, promise[r]))
  <2>1. HandleWaitings(r, waiting, said, nofetch)
    BY <1>1, <1>7
  <2> HIDE DEF said, status, s, nofetch
  <2>2. /\ waiting \in ScopeType /\ waiting.life = "live"
        /\ waiting.context = scope[r].context /\ waiting.runtime = scope[r].context
    BY <1>2, <1>3 DEF SetRuntimeContext, ScopeType
  <2> HIDE DEF waiting
  <2> QED BY <1>1, <1>2, <1>5, <2>1, <2>2, HandleWaitingsMoves
<1> QED BY <1>6, <1>7

\* A request arrives: it is open.
LEMMA HandleHttpRequestOpens ==
    ASSUME DInv, NEW r \in Request, HandleHttpRequest(r)
    PROVE  ExchangeStep
<1>1. PICK c \in Context : scope' = [scope EXCEPT ![r] = NewScope(c)]
    BY DEF HandleHttpRequest
<1>2. scope \in [Request -> ScopeType] /\ scope[r].life = "none" /\ UNCHANGED wire
    BY DEF HandleHttpRequest, DInv, AInv, IInv, TypeOK
<1>3. PhaseOf(NewScope(c)) = "open" /\ PhaseOf(scope[r]) = "none"
    BY <1>2 DEF PhaseOf, NewScope, ScopeWith
<1>4. RequestPhase' = [RequestPhase EXCEPT ![r] = "open"] /\ RequestPhase[r] = "none"
    BY <1>1, <1>2, <1>3 DEF RequestPhase
<1> QED BY <1>2, <1>4 DEF ExchangeStep, Exchange!Next, Exchange!Arrive

\* Every step of a disciplined loop is a step of the exchange, or none.
LEMMA NextIsExchange == Discipline /\ DInv /\ [Next]_vars => ExchangeStep
<1> SUFFICES ASSUME Discipline, DInv, [Next]_vars PROVE ExchangeStep
    OBVIOUS
<1>1. DInv'
    BY NextKeepsDInv
<1>2. ASSUME UNCHANGED <<scope, wire>>
      PROVE  ExchangeStep
    BY <1>2 DEF ExchangeStep, RequestPhase
<1>3. ASSUME NEW r \in Request, Live(r), ScriptEdit(r)
      PROVE  ExchangeStep
    BY <1>1, <1>3, OneRequestMoves DEF ScriptEdit, MovesOnly, Live
<1>4. CASE Script
    BY <1>3, <1>4, ScriptEdits DEF DInv, AInv
<1>5. ASSUME NEW out \in Returns, ListenerReturns(out)
      PROVE  ExchangeStep
  <2>1. PICK r \in Request : r = turn.req /\ Live(r)
    BY <1>5 DEF ListenerReturns, DInv, AInv, IInv, CallbacksConsistent
  <2>2. PICK s \in {SetError(scope[r]), scope[r],
                    [scope[r] EXCEPT !.pending = @ \cup {turn.listener}]} :
            scope' = [scope EXCEPT ![r] = s]
    BY <1>5, <2>1 DEF ListenerReturns
  <2>3. scope \in [Request -> ScopeType] /\ UNCHANGED wire
    BY <1>5 DEF ListenerReturns, DInv, AInv, IInv, TypeOK
  <2>4. s.life = scope[r].life /\ s.sent = scope[r].sent
    BY <2>3 DEF SetError, ScopeType
  <2>5. MovesOnly(r) /\ scope'[r] = s
    BY <2>2, <2>3 DEF MovesOnly
  <2> QED BY <1>1, <2>1, <2>4, <2>5, OneRequestMoves DEF Live
<1>6. CASE Respond
    BY <1>1, <1>6, RespondMoves
<1>7. CASE CallbackReturns
  <2> DEFINE r == turn.req
             fin == {f \in Fetch : fetch[f].state = "running"}
  <2>1. /\ UNCHANGED promise /\ turn.kind \in {"timer", "fetch"}
        /\ HandleWaitings(r, scope[r], wire[r], fin)
    BY <1>7 DEF CallbackReturns
  <2>2. /\ r \in Request /\ Live(r) /\ scope[r] \in ScopeType
        /\ scope[r].life = "live" /\ scope[r].runtime = scope[r].context
        /\ wire[r] \in Seq(Request)
    BY <2>1 DEF DInv, AInv, IInv, TypeOK, CallbacksConsistent, Live
  <2> HIDE DEF fin
  <2> QED BY <1>1, <2>1, <2>2, HandleWaitingsMoves
<1>8. ASSUME NEW t \in Timer, TimerExecute(t)
      PROVE  ExchangeStep
    BY <1>2, <1>8 DEF TimerExecute
<1>9. ASSUME NEW f \in Fetch, FulfillPromise(f)
      PROVE  ExchangeStep
    BY <1>2, <1>9 DEF FulfillPromise
<1>10. CASE Client
    BY <1>2, <1>10 DEF Client, SendAsyncDone, SendAsyncFailed
<1>11. ASSUME UNCHANGED vars
       PROVE  ExchangeStep
    BY <1>2, <1>11 DEF vars
<1> QED BY <1>4, <1>5, <1>6, <1>7, <1>8, <1>9, <1>10, <1>11, HandleHttpRequestOpens
        DEF Next, EndOfTurn, Loop

\* Under these habits each client is answered once, by the script that ran for
\* its request, and the request is let go only after that, in every
\* interleaving of the callbacks (handle_response, handle_waitings).
THEOREM ExchangeIsKept ==
    ASSUME Discipline
    PROVE  Spec => ExchangeSpec
<1>1. ASSUME Init
      PROVE  Exchange!Init
  <2>1. RequestPhase = [r \in Request |-> "none"]
    BY <1>1 DEF Init, RequestPhase, PhaseOf, NoScope, ScopeWith
  <2> QED BY <1>1, <2>1 DEF Init, Exchange!Init
<1>2. DInv /\ [Next]_vars => [Exchange!Next]_Exchange!vars
    BY NextIsExchange DEF ExchangeStep, Exchange!vars
<1>3. Init => Exchange!Init
    BY <1>1
<1> QED BY <1>2, <1>3, DisciplinedInvariance, PTL DEF Spec, ExchangeSpec, Exchange!Spec
-----------------------------------------------------------------------------
(* Scripts with every habit: no scope is left that nothing will call       *)
(* again.  Its client can still be answered, by its handler or by the      *)
(* promise saved in its context, and what it awaits has a fetch or a timer *)
(* of its own, which no other turn takes away.                             *)

EveryHabit == AllHabits \subseteq Habits

NothingRejected == \A r \in Request, n \in Name : promise[r][n] # "rejected"

\* Every context the queue can give out runs its script when a request comes.
EveryContextListens ==
    \A c \in Context : ctx[c].state = "ready" => ctx[c].listeners > 0

\* What will answer r.
Answerable(r) ==
    Live(r) /\ ~scope[r].sent =>
        IF MayStillRespond(r) THEN scope[r].response = None
        ELSE \/ HandlerOf(r) /\ (scope[r].error \/ scope[r].response = r)
             \/ Saved(r) # None /\ scope[r].response = None

\* The script of r is running; it may still make the calls that settle its
\* promises.
Runs(r) == InScript /\ turn.req = r

\* What will settle what r awaits.
Cared(r) ==
    Live(r) /\ ~Runs(r) /\ AwaitsPromise(r, scope[r], promise[r])
        => FetchDue(r) \/ TimerDue(r)

FInv ==
    /\ DInv
    /\ NothingRejected
    /\ EveryContextListens
    /\ \A r \in Request : Answerable(r) /\ Cared(r)

\* No request has come.
LEMMA InitFInv == Init => FInv
<1> SUFFICES ASSUME Init PROVE FInv
    OBVIOUS
<1>1. /\ \A r \in Request : scope[r].life = "none"
      /\ \A r \in Request, n \in Name : promise[r][n] = "pending"
    BY DEF Init, NoScope, ScopeWith
<1>2. EveryContextListens
    BY ListenerAssumption DEF Init, EveryContextListens, MakeContext, NoContext
<1> QED BY <1>1, <1>2, InitDInv DEF FInv, NothingRejected, Answerable, Cared, Live

\* A fetch or a timer of q that is due stays so.
DuesStay(q) == (FetchDue(q) => FetchDue(q)') /\ (TimerDue(q) => TimerDue(q)')

\* What a step does not touch is still answerable and cared for.
LEMMA FrameKeepsCare ==
    ASSUME NEW q \in Request, Answerable(q), Cared(q),
           scope'[q] = scope[q], promise'[q] = promise[q],
           Live(q) => ctx'[scope[q].context].promise = ctx[scope[q].context].promise,
           ~Runs(q)' => DuesStay(q),
           ~HandlerOf(q), ~HandlerOf(q)', ~Runs(q)
    PROVE  Answerable(q)' /\ Cared(q)'
<1>1. ~MayStillRespond(q) /\ ~MayStillRespond(q)'
    BY DEF MayStillRespond, HandlerOf, InHandler
<1>2. Live(q)' <=> Live(q)
    BY DEF Live
<1>3. Live(q) => Saved(q)' = Saved(q)
    BY DEF Saved
<1>4. Live(q) /\ AwaitsPromise(q, scope[q], promise[q])'
          => AwaitsPromise(q, scope[q], promise[q])
    BY DEF AwaitsPromise
<1> QED BY <1>1, <1>2, <1>3, <1>4 DEF Answerable, Cared, DuesStay

\* The turn of one request takes no fetch and no timer of another away.
LEMMA ScriptSparesOthers ==
    ASSUME EveryHabit, IInv, Script, NEW q \in Request, q # turn.req
    PROVE  DuesStay(q)
<1>1. fetch \in [Fetch -> FetchType] /\ timer \in [Timer -> TimerType]
    BY DEF IInv, TypeOK
<1>2. ASSUME NEW f \in Fetch, GlobalFetch(f)
      PROVE  DuesStay(q)
  <2>1. f \notin FetchesOf(q)
    BY <1>2, NoneAssumption DEF GlobalFetch, FetchesOf, IInv, FetchReferences, NoFetch
  <2>2. FetchDue(q) => FetchDue(q)'
    BY <1>2, <2>1 DEF GlobalFetch, FetchDue, FetchesOf
  <2> QED BY <1>2, <2>2 DEF GlobalFetch, DuesStay, TimerDue, TimersOf
<1>3. ASSUME NEW t \in Timer, NEW repeat \in Repeat, SetTimer(t, repeat)
      PROVE  DuesStay(q)
  <2>1. TimerDue(q) => TimerDue(q)'
    BY <1>3 DEF SetTimer, TimerDue, TimersOf
  <2> QED BY <1>3, <2>1 DEF SetTimer, DuesStay, FetchDue, FetchesOf
<1>4. ASSUME NEW t \in Timer, KillTimer(t)
      PROVE  DuesStay(q)
  <2>1. timer[t].scope # q
    BY <1>4 DEF KillTimer, EveryHabit, AllHabits
  <2>2. \A u \in Timer : u # t => timer'[u] = timer[u]
    BY <1>1, <1>4 DEF KillTimer
  <2>3. TimerDue(q) => TimerDue(q)'
    BY <2>1, <2>2 DEF TimerDue, TimersOf
  <2> QED BY <1>4, <2>3 DEF KillTimer, DuesStay, FetchDue, FetchesOf
<1>5. ASSUME UNCHANGED <<fetch, timer>>
      PROVE  DuesStay(q)
    BY <1>5 DEF DuesStay, FetchDue, FetchesOf, TimerDue, TimersOf
<1> QED BY <1>2, <1>3, <1>4, <1>5
        DEF Script, RespondWithResponse, RespondWithInvalid, RespondWithPromise,
            WaitUntil, SettlePromise, RejectListener

\* The habits of the liveness run include those of the disciplined one.
LEMMA HabitsAreDisciplined == EveryHabit => Discipline
BY DEF EveryHabit, AllHabits, Discipline

\* Every call of a script with every habit.
LEMMA ScriptKeepsFInv ==
    ASSUME EveryHabit, FInv, Script
    PROVE  FInv'
<1>1. PICK r \in Request : r = turn.req /\ Live(r) /\ ScriptEdit(r)
    BY ScriptEdits DEF FInv, DInv, AInv
<1>2. DInv' /\ Discipline
    BY ScriptKeepsDInv, HabitsAreDisciplined DEF FInv
<1>3. InScript
    BY DEF Script, RespondWithResponse, RespondWithInvalid, RespondWithPromise,
           WaitUntil, SettlePromise, RejectListener, GlobalFetch, SetTimer, KillTimer
<1>4. CurrentScope = r
    BY <1>1, <1>3, CurrentScopeIsTurn DEF FInv, DInv, AInv
<1>5. /\ scope \in [Request -> ScopeType] /\ ctx \in [Context -> ContextType]
      /\ promise \in [Request -> [Name -> PromiseValue]] /\ turn \in TurnType
      /\ scope[r].context \in Context
    BY <1>1 DEF FInv, DInv, AInv, IInv, TypeOK, ContextOwnership
<1>6. turn'.kind = turn.kind /\ turn'.req = r
    BY <1>1, <1>5
       DEF Script, RespondWithResponse, RespondWithInvalid, RespondWithPromise, Cancel,
           WaitUntil, SettlePromise, RejectListener, GlobalFetch, SetTimer, KillTimer,
           TurnType
<1>7. ASSUME NEW q \in Request, q # r
      PROVE  Answerable(q)' /\ Cared(q)'
  <2>1. /\ scope'[q] = scope[q] /\ promise'[q] = promise[q]
        /\ ~HandlerOf(q) /\ ~HandlerOf(q)' /\ ~Runs(q)
    BY <1>1, <1>6, <1>7 DEF ScriptEdit, HandlerOf, Runs
  <2>2. Live(q) => ctx'[scope[q].context].promise = ctx[scope[q].context].promise
    BY <1>1, <1>7, ContextsDiffer DEF ScriptEdit, FInv, DInv, AInv, IInv, ContextOwnership
  <2>3. DuesStay(q)
    BY <1>1, <1>7, ScriptSparesOthers DEF FInv, DInv, AInv
  <2> QED BY <2>1, <2>2, <2>3, FrameKeepsCare DEF FInv
<1>8. Cared(r)'
    BY <1>3, <1>6 DEF Cared, Runs, InScript
<1>9. NothingRejected'
  <2>1. ASSUME NEW n \in Name, NEW v \in Outcome, SettlePromise(n, v)
        PROVE  NothingRejected'
    <3>1. v # "rejected" /\ promise' = [promise EXCEPT ![r][n] = v]
      BY <1>1, <1>2, <2>1 DEF SettlePromise, Discipline
    <3> QED BY <1>5, <3>1 DEF FInv, NothingRejected
  <2>2. ASSUME UNCHANGED promise
        PROVE  NothingRejected'
    BY <2>2 DEF FInv, NothingRejected
  <2> QED BY <2>1, <2>2
          DEF Script, RespondWithResponse, RespondWithInvalid, RespondWithPromise,
              WaitUntil, RejectListener, GlobalFetch, SetTimer, KillTimer
<1>10. /\ EveryContextListens'
       /\ \/ UNCHANGED ctx
          \/ \E n \in Name : ctx' = [ctx EXCEPT ![scope[r].context].promise = <<r, n>>]
  <2>1. \/ UNCHANGED ctx
        \/ \E n \in Name : ctx' = [ctx EXCEPT ![scope[r].context].promise = <<r, n>>]
    BY <1>1 DEF Script, RespondWithResponse, RespondWithInvalid, RespondWithPromise,
           SavePromise, WaitUntil, SettlePromise, RejectListener, GlobalFetch, SetTimer,
           KillTimer
  <2>2. ASSUME NEW saved, ctx' = [ctx EXCEPT ![scope[r].context].promise = saved],
               NEW c \in Context
        PROVE  ctx'[c].state = ctx[c].state /\ ctx'[c].listeners = ctx[c].listeners
    BY <1>5, <2>2 DEF ContextType
  <2>3. \A c \in Context :
            ctx'[c].state = ctx[c].state /\ ctx'[c].listeners = ctx[c].listeners
    BY <2>1, <2>2
  <2> QED BY <2>1, <2>3 DEF FInv, EveryContextListens
<1>11. Answerable(r)'
  <2>1. ASSUME UNCHANGED <<turn, ctx>>, scope'[r].error = scope[r].error,
               scope'[r].response = scope[r].response
        PROVE  Answerable(r)'
    <3>1. /\ MayStillRespond(r)' <=> MayStillRespond(r)
          /\ HandlerOf(r)' <=> HandlerOf(r)
      BY <2>1 DEF MayStillRespond, HandlerOf, InHandler
    <3>2. /\ Saved(r)' = Saved(r) /\ (Live(r)' <=> Live(r))
          /\ scope'[r].sent = scope[r].sent
      BY <1>1, <2>1 DEF ScriptEdit, Saved, Live
    <3> QED BY <2>1, <3>1, <3>2 DEF FInv, Answerable
  <2>2. ASSUME MayRespond, Cancel
        PROVE  MayStillRespond(r) /\ HandlerOf(r)' /\ ~MayStillRespond(r)'
    BY <1>1, <1>2, <1>5, <1>6, <2>2
       DEF MayRespond, Discipline, Cancel, MayStillRespond, HandlerOf, InHandler, TurnType
  <2>3. ASSUME NEW st \in Status, RespondWithResponse(st)
        PROVE  Answerable(r)'
    <3>1. HandlerOf(r)' /\ ~MayStillRespond(r)'
      BY <2>2, <2>3 DEF RespondWithResponse
    <3>2. scope'[r].response = r
      BY <1>1, <1>4, <1>5, <2>3 DEF RespondWithResponse, SetResponse, ScopeType
    <3> QED BY <3>1, <3>2 DEF Answerable
  <2>4. ASSUME NEW n \in Name, NEW st \in Status, RespondWithPromise(n, st)
        PROVE  Answerable(r)'
    <3> DEFINE value == promise[r][n]
    <3>1. /\ HandlerOf(r)' /\ ~MayStillRespond(r)' /\ MayStillRespond(r)
          /\ value \notin {"other", "rejected"}
      BY <1>1, <1>2, <2>2, <2>4 DEF RespondWithPromise, Discipline
    <3>2. CASE value \in {"response", "shared"}
      <4>1. scope'[r].response = r
        BY <1>1, <1>4, <1>5, <2>4, <3>2 DEF RespondWithPromise, SetResponse, ScopeType
      <4> QED BY <3>1, <4>1 DEF Answerable
    <3>3. CASE value \notin {"response", "shared"}
      <4>1. value = "pending"
        BY <1>5, <3>1, <3>3 DEF PromiseValue, Fulfilled
      <4>2. /\ scope'[r] = scope[r]
            /\ ctx' = [ctx EXCEPT ![scope[r].context].promise = <<r, n>>]
        BY <1>1, <1>4, <1>5, <2>4, <4>1 DEF RespondWithPromise, SavePromise
      <4>3. Saved(r)' = <<r, n>> /\ <<r, n>> \in Request \X Name
        BY <1>5, <4>2 DEF Saved, ContextType
      <4>4. Saved(r)' # None
        BY <4>3, NoneAssumption
      <4>5. ~scope[r].sent => scope[r].response = None
        BY <1>1, <3>1 DEF FInv, Answerable
      <4> QED BY <3>1, <4>2, <4>4, <4>5 DEF Answerable
    <3> QED BY <3>2, <3>3
  <2>5. ASSUME NEW n \in Name, WaitUntil(n)
        PROVE  Answerable(r)'
    BY <1>1, <1>4, <1>5, <2>1, <2>5 DEF WaitUntil, ScopeType
  <2>6. ASSUME NEW i \in 1 .. NListeners, RejectListener(i)
        PROVE  Answerable(r)'
    BY <1>1, <1>4, <1>5, <2>1, <2>6 DEF RejectListener, ScopeType
  <2>7. ASSUME \/ \E n \in Name, v \in Outcome : SettlePromise(n, v)
               \/ \E f \in Fetch : GlobalFetch(f)
               \/ \E t \in Timer, repeat \in Repeat : SetTimer(t, repeat)
               \/ \E t \in Timer : KillTimer(t)
        PROVE  Answerable(r)'
    BY <2>1, <2>7 DEF SettlePromise, GlobalFetch, SetTimer, KillTimer
  <2>8. ~RespondWithInvalid
    BY <1>2 DEF Discipline, RespondWithInvalid
  <2> QED BY <2>3, <2>4, <2>5, <2>6, <2>7, <2>8 DEF Script
<1> QED BY <1>2, <1>7, <1>8, <1>9, <1>10, <1>11 DEF FInv

\* A listener returns; after the last one, the event was responded to and what
\* it awaits is due.
LEMMA ListenerReturnsKeepsFInv ==
    ASSUME EveryHabit, FInv, NEW out \in Returns, ListenerReturns(out)
    PROVE  FInv'
<1>0. PICK r \in Request : r = turn.req
    BY DEF ListenerReturns, FInv, DInv, AInv, IInv, CallbacksConsistent
<1> DEFINE s == IF out = "failed" THEN SetError(scope[r])
                ELSE IF out = "pending"
                     THEN [scope[r] EXCEPT !.pending = @ \cup {turn.listener}]
                ELSE scope[r]
           last == turn.cancelled \/ LastListener(s.context, turn.listener)
<1>1. /\ turn.kind = "listener"
      /\ last => SettlesPromises(r, s)
      /\ last /\ "responds_once_in_handler" \in Habits => s.error \/ turn.cancelled
      /\ scope' = [scope EXCEPT ![r] = s]
      /\ turn' = IF last THEN NewTurn("respond", r, 0)
                 ELSE NewTurn("listener", r, turn.listener + 1)
      /\ UNCHANGED <<pool, ctx, fetch, timer, promise, wire, fault>>
    BY <1>0 DEF ListenerReturns
<1>2. /\ Live(r) /\ scope[r] \in ScopeType /\ scope \in [Request -> ScopeType]
      /\ Answerable(r)
    BY <1>0, <1>1 DEF FInv, DInv, AInv, IInv, TypeOK, CallbacksConsistent
<1>3. /\ s.context = scope[r].context /\ s.sent = scope[r].sent
      /\ s.response = scope[r].response /\ s.life = scope[r].life
      /\ scope[r].error => s.error
    BY <1>2 DEF SetError, ScopeType
<1>4. /\ last => s.error \/ turn.cancelled
      /\ last => (AwaitsPromise(r, s, promise[r]) => FetchDue(r) \/ TimerDue(r))
      /\ ~last => ~turn.cancelled
    BY <1>1 DEF EveryHabit, AllHabits, SettlesPromises
<1> HIDE DEF s, last
<1>5. /\ turn'.kind \in {"listener", "respond"} /\ turn'.req = r
      /\ last => turn'.kind = "respond"
      /\ ~last => turn'.kind = "listener" /\ ~turn'.cancelled
    BY <1>1 DEF NewTurn
<1>6. DInv'
    BY ListenerReturnsKeepsDInv, HabitsAreDisciplined DEF FInv
<1>7. NothingRejected' /\ EveryContextListens'
    BY <1>1 DEF FInv, NothingRejected, EveryContextListens
<1>8. ASSUME NEW q \in Request, q # r
      PROVE  Answerable(q)' /\ Cared(q)'
  <2>1. /\ scope'[q] = scope[q] /\ UNCHANGED <<ctx, promise>> /\ DuesStay(q)
        /\ ~HandlerOf(q) /\ ~HandlerOf(q)' /\ ~Runs(q)
    BY <1>0, <1>1, <1>2, <1>5, <1>8
       DEF HandlerOf, Runs, DuesStay, FetchDue, FetchesOf, TimerDue, TimersOf
  <2> QED BY <2>1, FrameKeepsCare DEF FInv
<1>9. scope'[r] = s
    BY <1>1, <1>2
<1>10. Cared(r)'
  <2>1. CASE last
    <3>1. AwaitsPromise(r, scope[r], promise[r])' => FetchDue(r) \/ TimerDue(r)
      BY <1>1, <1>4, <1>9, <2>1 DEF AwaitsPromise
    <3> QED BY <1>1, <3>1 DEF Cared, FetchDue, FetchesOf, TimerDue, TimersOf
  <2>2. CASE ~last
    BY <1>5, <2>2 DEF Cared, Runs, InScript
  <2> QED BY <2>1, <2>2
<1>11. Answerable(r)'
  <2>1. HandlerOf(r)' /\ Saved(r)' = Saved(r)
    BY <1>1, <1>3, <1>5, <1>9 DEF HandlerOf, InHandler, Saved
  <2>2. Live(r) /\ (MayStillRespond(r) <=> ~turn.cancelled)
    BY <1>0, <1>1, <1>2 DEF MayStillRespond
  <2>3. CASE ~last
    BY <1>2, <1>3, <1>4, <1>5, <1>9, <2>2, <2>3 DEF Answerable, MayStillRespond
  <2>4. CASE last
    BY <1>2, <1>3, <1>4, <1>5, <1>9, <2>1, <2>2, <2>4 DEF Answerable, MayStillRespond
  <2> QED BY <2>3, <2>4
<1> QED BY <1>6, <1>7, <1>8, <1>10, <1>11 DEF FInv

\* What the end of a turn of r leaves alone: contexts do not get ready by it,
\* and only a scope that is deleted loses its fetches and timers.
Spares(r) ==
    /\ \A c \in Context : ctx'[c].state = "ready" =>
          ctx[c].state = "ready" /\ ctx'[c].listeners = ctx[c].listeners
    /\ \A q \in Request : q # r \/ scope'[r].life = "live" => DuesStay(q)

\* The loops over fetches lose none that is due.
LEMMA LoopsKeepDues ==
    ASSUME IInv, NEW r \in Request,
           NEW fin, \A f \in Fetch : f \in fin => ~Unfinished(fetch[f]),
           NEW f \in Fetch
    PROVE  LET left == FinishFetches(DoFetchRequests(fetch, r), fin)
           IN  /\ left[f] \in FetchType
               /\ left[f].scope = fetch[f].scope
               /\ Unfinished(fetch[f]) => Unfinished(left[f])
<1> DEFINE fs == DoFetchRequests(fetch, r)
           gs == FinishFetches(fs, fin)
<1>1. fetch[f] \in FetchType
    BY DEF IInv, TypeOK
<1>2. ASSUME NEW x \in FetchType, Unfinished(x)
      PROVE  Unfinished(DoRequest(x))
  <2> DEFINE y == Retain(x)
  <2>1. y \in FetchType /\ y.state = x.state
    BY DEF Retain, FetchType
  <2>2. DoRequest(x) = IF x.state = "created" THEN [y EXCEPT !.state = "sent"] ELSE x
    BY DEF DoRequest
  <2> HIDE DEF y
  <2> QED BY <1>2, <2>1, <2>2 DEF FetchType, Unfinished
<1>3. /\ fs[f] \in FetchType /\ fs[f].scope = fetch[f].scope
      /\ Unfinished(fetch[f]) => Unfinished(fs[f])
  <2>1. fs[f] = IF fetch[f].scope = r THEN DoRequest(fetch[f]) ELSE fetch[f]
    BY DEF DoFetchRequests
  <2> HIDE DEF fs
  <2> QED BY <1>1, <1>2, <2>1, FetchMoves
<1> HIDE DEF fs
<1>4. gs[f] = IF f \in fin THEN Finished(fs[f]) ELSE fs[f]
    BY DEF FinishFetches
<1>5. gs = FinishFetches(DoFetchRequests(fetch, r), fin)
    BY DEF fs
<1> HIDE DEF gs
<1>6. /\ gs[f] \in FetchType /\ gs[f].scope = fetch[f].scope
      /\ Unfinished(fetch[f]) => Unfinished(gs[f])
    BY <1>3, <1>4, FetchMoves
<1> QED BY <1>5, <1>6

\* destroy() of the scope of r.
LEMMA DestroySpares ==
    ASSUME IInv, NEW r \in Request, NEW s, NEW c \in Context, NEW fs,
           \A f \in Fetch : /\ fs[f] \in FetchType
                            /\ fs[f].scope = fetch[f].scope
                            /\ Unfinished(fetch[f]) => Unfinished(fs[f]),
           Destroy(r, s, fs, c)
    PROVE  Spares(r)
<1>1. /\ scope \in [Request -> ScopeType] /\ timer \in [Timer -> TimerType]
      /\ ctx \in [Context -> ContextType]
    BY DEF IInv, TypeOK
<1>2. /\ scope' = [scope EXCEPT ![r] = DeadScope(s)]
      /\ fetch' = TerminateFetches(fs, r)
      /\ timer' = FreeTimers(timer, r)
      /\ Recycle(c)
    BY NoneAssumption DEF Destroy
<1>3. scope'[r].life = "dead"
    BY <1>1, <1>2 DEF DeadScope, NoScope, ScopeWith
<1>4. ASSUME NEW d \in Context, ctx'[d].state = "ready"
      PROVE  ctx[d].state = "ready" /\ ctx'[d].listeners = ctx[d].listeners
  <2>1. CASE ctx[c].error
    <3>1. ctx' = [ctx EXCEPT ![c].state = "deleted"]
      BY <1>2, <2>1 DEF Recycle
    <3> QED BY <1>1, <1>4, <3>1 DEF ContextType
  <2>2. CASE ~ctx[c].error
    BY <1>2, <1>4, <2>2 DEF Recycle
  <2> QED BY <2>1, <2>2
<1>5. ASSUME NEW q \in Request, q # r
      PROVE  DuesStay(q)
  <2>1. ASSUME NEW f \in Fetch, fetch[f].scope = q
        PROVE  fetch'[f] = fs[f]
    BY <1>2, <1>5, <2>1 DEF TerminateFetches
  <2>2. FetchDue(q) => FetchDue(q)'
    BY <2>1 DEF FetchDue, FetchesOf
  <2>3. ASSUME NEW t \in Timer, timer[t].scope = q
        PROVE  timer'[t] = timer[t]
    BY <1>2, <1>5, <2>3 DEF FreeTimers
  <2>4. TimerDue(q) => TimerDue(q)'
    BY <2>3 DEF TimerDue, TimersOf
  <2> QED BY <2>2, <2>4 DEF DuesStay
<1> QED BY <1>3, <1>4, <1>5 DEF Spares

\* handle_waitings of the scope of r.
LEMMA HandleWaitingsSpares ==
    ASSUME IInv, NEW r \in Request, NEW s, s.runtime \in Context, NEW said,
           NEW fin, \A f \in Fetch : f \in fin => ~Unfinished(fetch[f]),
           HandleWaitings(r, s, said, fin), fault' = "none", fault = "none"
    PROVE  Spares(r)
<1> DEFINE sentAll == DoFetchRequests(fetch, r)
           left == FinishFetches(sentAll, fin)
<1>1. ASSUME NEW f \in Fetch
      PROVE  /\ left[f] \in FetchType
             /\ left[f].scope = fetch[f].scope
             /\ Unfinished(fetch[f]) => Unfinished(left[f])
    BY LoopsKeepDues
<1>2. \/ \E t : Destroy(r, t, left, s.runtime)
      \/ \E t : Keep(r, t, left)
    BY DEF HandleWaitings
<1> HIDE DEF left
<1>3. ASSUME NEW t, Keep(r, t, left)
      PROVE  Spares(r)
  <2>1. /\ fetch' = left /\ UNCHANGED <<ctx, timer>>
    BY <1>3 DEF Keep
  <2>2. \A q \in Request : DuesStay(q)
    BY <1>1, <2>1 DEF DuesStay, FetchDue, FetchesOf, TimerDue, TimersOf
  <2> QED BY <2>1, <2>2 DEF Spares
<1>4. ASSUME NEW t, Destroy(r, t, left, s.runtime)
      PROVE  Spares(r)
    BY <1>1, <1>4, DestroySpares
<1> QED BY <1>2, <1>3, <1>4

\* A turn of r ends with the fields s of its scope and left as t: while nothing
\* is sent, t is what the script left, and its promise is still saved.
LEMMA TurnEndKeepsFInv ==
    ASSUME FInv, DInv', NEW r \in Request, Live(r), turn.req = r,
           AwaitsPromise(r, scope[r], promise[r]) => FetchDue(r) \/ TimerDue(r),
           NEW s, NEW t, NEW said, s.waits = scope[r].waits, s.error => s.sent,
           ~s.sent => /\ ~scope[r].sent /\ ~scope[r].error /\ scope[r].response = None
                      /\ s.response = None /\ Saved(r) # None,
           TurnSettles(r, s, t, said), Spares(r),
           turn' = Idle, UNCHANGED promise
    PROVE  FInv'
<1>1. /\ scope \in [Request -> ScopeType] /\ scope[r].context \in Context
      /\ \A q \in Request : Answerable(q) /\ Cared(q)
    BY DEF FInv, DInv, AInv, IInv, TypeOK, ContextOwnership
<1>2. PICK u \in {t, DeadScope(t)} : scope' = [scope EXCEPT ![r] = u]
    BY DEF TurnSettles, Left
<1>3. /\ \A c \in Context : ctx'[c].promise = ctx[c].promise
      /\ t.life = "live" /\ t.context = scope[r].context /\ t.waits = s.waits
      /\ ~t.sent => ~s.sent /\ t = s
      /\ DeadScope(t).life = "dead"
    BY DEF TurnSettles, Left, DeadScope, NoScope, ScopeWith
<1>4. \A q \in Request : ~HandlerOf(q)' /\ ~MayStillRespond(q)' /\ ~Runs(q)'
    BY DEF HandlerOf, InHandler, MayStillRespond, Runs, InScript, Idle, NewTurn
<1>5. NothingRejected' /\ EveryContextListens'
  <2>1. \A c \in Context : ctx'[c].state = "ready" =>
            ctx[c].state = "ready" /\ ctx'[c].listeners = ctx[c].listeners
    BY DEF Spares
  <2> QED BY <2>1 DEF FInv, NothingRejected, EveryContextListens
<1>6. ASSUME NEW q \in Request, q # r
      PROVE  Answerable(q)' /\ Cared(q)'
  <2>1. /\ scope'[q] = scope[q] /\ promise'[q] = promise[q] /\ DuesStay(q)
        /\ ~HandlerOf(q) /\ ~Runs(q)
    BY <1>1, <1>2, <1>6 DEF HandlerOf, Runs, Spares
  <2>2. Live(q) => ctx'[scope[q].context].promise = ctx[scope[q].context].promise
    BY <1>3 DEF FInv, DInv, AInv, IInv, ContextOwnership
  <2> QED BY <1>1, <1>4, <2>1, <2>2, FrameKeepsCare
<1>7. Live(r)' => scope'[r] = t /\ Saved(r)' = Saved(r) /\ DuesStay(r)
  <2>1. scope'[r] = u
    BY <1>1, <1>2
  <2>2. u.life = "live" => u = t
    BY <1>2, <1>3
  <2> QED BY <1>1, <1>3, <2>1, <2>2 DEF Live, Saved, Spares
<1>8. Answerable(r)'
    BY <1>3, <1>4, <1>7 DEF Answerable
<1>9. Cared(r)'
  <2> SUFFICES ASSUME Live(r)', AwaitsPromise(r, scope[r], promise[r])'
               PROVE  FetchDue(r)' \/ TimerDue(r)'
    BY DEF Cared
  <2>1. PICK n \in Name :
          /\ promise[r][n] = "pending"
          /\ \/ n \in t.waits
             \/ ~t.sent /\ Saved(r) = <<r, n>>
    BY <1>1, <1>3, <1>7 DEF AwaitsPromise, Saved
  <2>2. AwaitsPromise(r, scope[r], promise[r])
    BY <1>3, <2>1 DEF AwaitsPromise, Saved
  <2> QED BY <1>7, <2>2 DEF DuesStay
<1> QED BY <1>5, <1>6, <1>8, <1>9 DEF FInv

\* handle_waitings, as the end of both callbacks.
LEMMA WaitingsKeepFInv ==
    ASSUME FInv, DInv', NEW r \in Request, Live(r), turn.req = r,
           AwaitsPromise(r, scope[r], promise[r]) => FetchDue(r) \/ TimerDue(r),
           NEW s \in ScopeType, s.life = "live", s.waits = scope[r].waits,
           s.context = scope[r].context, s.runtime = scope[r].context,
           NEW said \in Seq(Request), s.error => s.sent,
           NEW fin, \A f \in Fetch : f \in fin => ~Unfinished(fetch[f]),
           ~s.sent => /\ ~scope[r].sent /\ ~scope[r].error /\ scope[r].response = None
                      /\ s.response = None /\ Saved(r) # None,
           HandleWaitings(r, s, said, fin), turn' = Idle, UNCHANGED promise
    PROVE  FInv'
<1>1. IInv /\ fault = "none" /\ fault' = "none" /\ s.runtime \in Context
    BY DEF FInv, DInv, AInv, IInv, ContextOwnership
<1>2. PICK t \in ScopeType : TurnSettles(r, s, t, said)
    BY <1>1, HandleWaitingsSettles
<1>3. Spares(r)
    BY <1>1, HandleWaitingsSpares
<1> QED BY <1>2, <1>3, TurnEndKeepsFInv

\* The handler ends: it was cared for when its last listener returned.
LEMMA RespondKeepsFInv ==
    ASSUME FInv, DInv', Respond
    PROVE  FInv'
<1> DEFINE r == turn.req
           before == scope[r]
           s == HandleResponse(before)
           status == ResponseStatus(before)
           said == IF Writes(before) THEN Append(wire[r], before.response)
                   ELSE IF status # 0 THEN Append(wire[r], r)
                   ELSE wire[r]
           waiting == SetRuntimeContext(s)
           nofetch == {}
<1>1. /\ turn.kind = "respond" /\ turn' = Idle /\ UNCHANGED promise
      /\ IF status # 0 /\ AllWaitUntilsDone(s, promise[r])
         THEN /\ Destroy(r, s, fetch, s.context)
              /\ wire' = [wire EXCEPT ![r] = said]
              /\ UNCHANGED fault
         ELSE HandleWaitings(r, waiting, said, nofetch)
    BY DEF Respond
<1>2. /\ IInv /\ fault = "none"
      /\ r \in Request /\ Live(r) /\ before \in ScopeType
      /\ before.life = "live" /\ before.context \in Context
      /\ ~before.sent /\ wire[r] = <<>>
      /\ Answerable(r) /\ Cared(r) /\ ~MayStillRespond(r) /\ ~Runs(r)
      /\ \A f \in Fetch : fetch[f] \in FetchType
    BY <1>1 DEF FInv, DInv, AInv, IInv, TypeOK, CallbacksConsistent, ContextOwnership,
                Live, HandlerHasNotSent, SentMarksAnswer, MayStillRespond, Runs, InScript
<1>3. /\ s \in ScopeType /\ s.life = "live" /\ s.context = before.context
      /\ s.waits = before.waits /\ s.error = before.error
      /\ s.response = before.response
      /\ s.sent = (before.error \/ before.response # None)
    BY <1>2 DEF HandleResponse, ScopeType
<1>4. /\ status # 0 => s.sent
      /\ s.error => s.sent
      /\ ~s.sent => /\ ~before.error /\ before.response = None
                    /\ s.response = None /\ Saved(r) # None
    BY <1>2, <1>3, NoneAssumption DEF ResponseStatus, Answerable
<1>5. said \in Seq(Request)
  <2>1. Writes(before) => before.response \in Request
    BY <1>2 DEF Writes, ScopeType
  <2>2. wire[r] \in Seq(Request) /\ \A q \in Request : Append(wire[r], q) \in Seq(Request)
    BY <1>2
  <2> QED BY <1>2, <2>1, <2>2
<1>6. AwaitsPromise(r, scope[r], promise[r]) => FetchDue(r) \/ TimerDue(r)
    BY <1>2 DEF Cared
<1>7. CASE status # 0 /\ AllWaitUntilsDone(s, promise[r])
  <2>1. /\ Destroy(r, s, fetch, s.context)
        /\ wire' = [wire EXCEPT ![r] = said]
        /\ UNCHANGED fault
        /\ s.sent /\ \A n \in s.waits : promise[r][n] \in Fulfilled
    BY <1>1, <1>4, <1>7 DEF AllWaitUntilsDone
  <2> HIDE DEF said, status, s
  <2>2. TurnSettles(r, s, s, said)
    BY <1>2, <1>3, <2>1, DestroySettles
  <2>3. Spares(r)
    BY <1>2, <1>3, <2>1, DestroySpares
  <2> QED BY <1>1, <1>2, <1>3, <1>4, <1>6, <2>1, <2>2, <2>3, TurnEndKeepsFInv
<1>8. CASE ~(status # 0 /\ AllWaitUntilsDone(s, promise[r]))
  <2>1. HandleWaitings(r, waiting, said, nofetch)
    BY <1>1, <1>8
  <2>2. \A f \in Fetch : f \in nofetch => ~Unfinished(fetch[f])
    OBVIOUS
  <2> HIDE DEF said, status, s, nofetch
  <2>3. /\ waiting \in ScopeType /\ waiting.life = "live"
        /\ waiting.context = scope[r].context /\ waiting.runtime = scope[r].context
        /\ waiting.sent = s.sent /\ waiting.error = s.error
        /\ waiting.waits = s.waits /\ waiting.response = s.response
    BY <1>2, <1>3 DEF SetRuntimeContext, ScopeType
  <2> HIDE DEF waiting
  <2> QED BY <1>1, <1>2, <1>3, <1>4, <1>5, <1>6, <2>1, <2>2, <2>3, WaitingsKeepFInv
<1> QED BY <1>7, <1>8

\* The callback of a timer or of a fetch ends.
LEMMA CallbackReturnsKeepsFInv ==
    ASSUME EveryHabit, FInv, DInv', CallbackReturns
    PROVE  FInv'
<1> DEFINE r == turn.req
           s == scope[r]
           said == wire[r]
           fin == {f \in Fetch : fetch[f].state = "running"}
<1>1. /\ turn.kind \in {"timer", "fetch"} /\ turn' = Idle /\ UNCHANGED promise
      /\ SettlesPromises(r, s)
      /\ HandleWaitings(r, s, said, fin)
    BY DEF CallbackReturns
<1>2. /\ r \in Request /\ Live(r) /\ s \in ScopeType
      /\ s.life = "live" /\ s.context = scope[r].context
      /\ s.runtime = scope[r].context /\ said \in Seq(Request)
      /\ GoodAnswers(r) /\ Answerable(r) /\ ~HandlerOf(r) /\ ~MayStillRespond(r)
    BY <1>1 DEF FInv, DInv, AInv, IInv, TypeOK, CallbacksConsistent, Live,
                HandlerOf, InHandler, MayStillRespond
<1>3. /\ AwaitsPromise(r, scope[r], promise[r]) => FetchDue(r) \/ TimerDue(r)
      /\ \A f \in Fetch : f \in fin => ~Unfinished(fetch[f])
    BY <1>1 DEF SettlesPromises, EveryHabit, AllHabits, Unfinished
<1>4. /\ s.error => s.sent
      /\ ~s.sent => s.response = None /\ Saved(r) # None
    BY <1>2 DEF GoodAnswers, Answerable
<1> HIDE DEF fin
<1> QED BY <1>1, <1>2, <1>3, <1>4, WaitingsKeepFInv

\* A request comes: its script runs.
LEMMA HandleHttpRequestKeepsFInv ==
    ASSUME EveryHabit, FInv, DInv', NEW r \in Request, HandleHttpRequest(r)
    PROVE  FInv'
<1>1. PICK c \in Context : \E x \in FreshContexts \cup {ctx[c]} :
        /\ GetContext(c, x)
        /\ ctx' = [ctx EXCEPT ![c] = [x EXCEPT !.scope = r]]
        /\ scope' = [scope EXCEPT ![r] = NewScope(c)]
        /\ turn' = IF x.listeners = 0 THEN NewTurn("respond", r, 0)
                   ELSE NewTurn("listener", r, 1)
    BY DEF HandleHttpRequest
<1>2. PICK x \in FreshContexts \cup {ctx[c]} :
        /\ GetContext(c, x)
        /\ ctx' = [ctx EXCEPT ![c] = [x EXCEPT !.scope = r]]
        /\ scope' = [scope EXCEPT ![r] = NewScope(c)]
        /\ turn' = IF x.listeners = 0 THEN NewTurn("respond", r, 0)
                   ELSE NewTurn("listener", r, 1)
    BY <1>1
<1>3. /\ IInv /\ turn.kind = "idle" /\ scope[r].life = "none"
      /\ scope \in [Request -> ScopeType] /\ ctx \in [Context -> ContextType]
      /\ UNCHANGED <<fetch, timer, promise, wire, fault>>
      /\ EveryContextListens /\ \A q \in Request : Answerable(q) /\ Cared(q)
    BY DEF HandleHttpRequest, FInv, DInv, AInv, IInv, TypeOK
<1>4. x \in ContextType /\ ~Held(c)
    BY <1>2, <1>3, GetContextFacts
<1>5. x.listeners > 0
  <2>1. CASE x \in FreshContexts
    BY <2>1, ListenerAssumption DEF FreshContexts, EveryHabit, AllHabits
  <2>2. CASE x \notin FreshContexts
    <3>1. pool # <<>> /\ c = Head(pool) /\ x = ctx[c]
      BY <1>2, <2>2 DEF GetContext
    <3>2. pool \in Seq(Context)
      BY <1>3 DEF IInv, TypeOK
    <3>3. Pooled(c)
      BY <3>1, <3>2 DEF Pooled
    <3>4. ctx[c].state = "ready"
      BY <1>3, <3>3 DEF IInv, ContextOwnership
    <3> QED BY <1>3, <3>1, <3>4 DEF EveryContextListens
  <2> QED BY <2>1, <2>2
<1> DEFINE y == [x EXCEPT !.scope = r]
<1>6. ctx' = [ctx EXCEPT ![c] = y] /\ y.promise = x.promise /\ y.listeners = x.listeners
    BY <1>2, <1>4 DEF ContextType
<1> HIDE DEF y
<1>7. /\ NewScope(c).life = "live" /\ ~NewScope(c).sent /\ NewScope(c).response = None
    BY DEF NewScope, ScopeWith
<1>8. turn'.req = r /\ ~turn'.cancelled /\ turn'.kind = "listener"
    BY <1>2, <1>5 DEF NewTurn
<1>9. EveryContextListens' /\ NothingRejected'
    BY <1>3, <1>5, <1>6 DEF EveryContextListens, NothingRejected, FInv
<1>10. ASSUME NEW q \in Request, q # r
       PROVE  Answerable(q)' /\ Cared(q)'
  <2>1. /\ scope'[q] = scope[q] /\ ~HandlerOf(q) /\ ~HandlerOf(q)' /\ ~Runs(q)
        /\ DuesStay(q)
    BY <1>2, <1>3, <1>8, <1>10
       DEF HandlerOf, InHandler, Runs, InScript, DuesStay, FetchDue, FetchesOf,
           TimerDue, TimersOf
  <2>2. Live(q) => ctx'[scope[q].context].promise = ctx[scope[q].context].promise
    BY <1>3, <1>4, <1>6 DEF Held, IInv, ContextOwnership
  <2> QED BY <1>3, <2>1, <2>2, FrameKeepsCare
<1>11. Answerable(r)' /\ Cared(r)'
  <2>1. scope'[r] = NewScope(c)
    BY <1>2, <1>3
  <2>2. MayStillRespond(r)' /\ Runs(r)'
    BY <1>8 DEF MayStillRespond, Runs, InScript
  <2> QED BY <1>7, <2>1, <2>2 DEF Answerable, Cared
<1> QED BY <1>9, <1>10, <1>11 DEF FInv

\* A step that leaves scopes, contexts and promises alone, and takes away what
\* is due only of a request whose script it calls.
LEMMA CallKeepsFInv ==
    ASSUME FInv, DInv', UNCHANGED <<ctx, scope, promise>>,
           UNCHANGED turn \/ (turn.kind = "idle" /\ turn'.kind \in {"timer", "fetch"}),
           \A q \in Request : ~Runs(q)' => DuesStay(q)
    PROVE  FInv'
<1>1. NothingRejected' /\ EveryContextListens'
    BY DEF FInv, NothingRejected, EveryContextListens
<1>2. ASSUME NEW r \in Request
      PROVE  Answerable(r)' /\ Cared(r)'
  <2>1. /\ HandlerOf(r)' <=> HandlerOf(r)
        /\ MayStillRespond(r)' <=> MayStillRespond(r)
    BY DEF HandlerOf, InHandler, MayStillRespond
  <2>2. Answerable(r)'
    BY <2>1 DEF FInv, Answerable, Live, Saved
  <2>3. ~Runs(r)' => ~Runs(r)
    BY DEF Runs, InScript
  <2>4. AwaitsPromise(r, scope[r], promise[r])' => AwaitsPromise(r, scope[r], promise[r])
    BY DEF AwaitsPromise
  <2> QED BY <2>2, <2>3, <2>4 DEF FInv, Cared, Live, DuesStay
<1> QED BY <1>1, <1>2 DEF FInv

\* No step takes the last thing away that a waiting scope waits for.
LEMMA NextKeepsFInv == EveryHabit /\ FInv /\ [Next]_vars => FInv'
<1> SUFFICES ASSUME EveryHabit, FInv, [Next]_vars PROVE FInv'
    OBVIOUS
<1>1. /\ DInv' /\ IInv /\ fetch \in [Fetch -> FetchType]
      /\ timer \in [Timer -> TimerType] /\ fault' = "none"
    BY NextKeepsDInv, HabitsAreDisciplined DEF FInv, DInv, AInv, IInv, TypeOK
<1>2. ASSUME NEW t \in Timer, TimerExecute(t)
      PROVE  FInv'
  <2>1. /\ turn.kind = "idle" /\ turn'.kind = "timer" /\ turn'.req = timer[t].scope
        /\ \A u \in Timer : u # t => timer'[u] = timer[u]
        /\ UNCHANGED <<ctx, scope, promise, fetch>>
    BY <1>1, <1>2 DEF TimerExecute, NewTurn
  <2>2. ASSUME NEW q \in Request, ~Runs(q)'
        PROVE  DuesStay(q)
    <3>1. timer[t].scope # q
      BY <2>1, <2>2 DEF Runs, InScript
    <3> QED BY <2>1, <3>1 DEF DuesStay, FetchDue, FetchesOf, TimerDue, TimersOf
  <2> QED BY <1>1, <2>1, <2>2, CallKeepsFInv
<1>3. ASSUME NEW f \in Fetch, FulfillPromise(f)
      PROVE  FInv'
  <2>1. /\ turn.kind = "idle" /\ turn'.kind = "fetch" /\ turn'.req = fetch[f].scope
        /\ \A g \in Fetch : g # f => fetch'[g] = fetch[g]
        /\ UNCHANGED <<ctx, scope, promise, timer>>
    BY <1>1, <1>3 DEF FulfillPromise, NewTurn
  <2>2. ASSUME NEW q \in Request, ~Runs(q)'
        PROVE  DuesStay(q)
    <3>1. fetch[f].scope # q
      BY <2>1, <2>2 DEF Runs, InScript
    <3> QED BY <2>1, <3>1 DEF DuesStay, FetchDue, FetchesOf, TimerDue, TimersOf
  <2> QED BY <1>1, <2>1, <2>2, CallKeepsFInv
<1>4. ASSUME NEW f \in Fetch, SendAsyncDone(f) \/ SendAsyncFailed(f)
      PROVE  FInv'
  <2>1. /\ UNCHANGED <<ctx, scope, promise, timer, turn>>
        /\ fetch' = [fetch EXCEPT ![f] = Answered(fetch[f])]
    BY <1>4 DEF SendAsyncDone, SendAsyncFailed, EveryHabit, AllHabits
  <2>2. Answered(fetch[f]).scope = fetch[f].scope /\ Unfinished(Answered(fetch[f]))
    BY <1>1 DEF Answered, FetchType, Unfinished
  <2>3. \A q \in Request : DuesStay(q)
    BY <1>1, <2>1, <2>2 DEF DuesStay, FetchDue, FetchesOf, TimerDue, TimersOf
  <2> QED BY <1>1, <2>1, <2>3, CallKeepsFInv
<1>5. ASSUME UNCHANGED vars
      PROVE  FInv'
  <2>1. \A q \in Request : DuesStay(q)
    BY <1>5 DEF vars, DuesStay, FetchDue, FetchesOf, TimerDue, TimersOf
  <2> QED BY <1>1, <1>5, <2>1, CallKeepsFInv DEF vars
<1> QED BY <1>1, <1>2, <1>3, <1>4, <1>5, ScriptKeepsFInv, ListenerReturnsKeepsFInv,
           RespondKeepsFInv, CallbackReturnsKeepsFInv, HandleHttpRequestKeepsFInv
        DEF Next, EndOfTurn, Loop, Client

\* Between two callbacks, whatever the script did and whichever scopes ended, a
\* scope that is kept has a sent fetch or an armed timer of its own to run its
\* script again: the loop never drops the last thing a client waits for
\* (handle_waitings, do_fetch_requests, ~JsTimer).
THEOREM NobodyIsEverForgotten ==
    ASSUME EveryHabit
    PROVE  Spec => []NobodyIsForgotten
<1>1. FInv /\ [Next]_vars => FInv'
    BY NextKeepsFInv
<1>2. ASSUME FInv
      PROVE  NobodyIsForgotten
  <2> SUFFICES ASSUME turn.kind = "idle", NEW r \in Request, Live(r)
               PROVE  \/ \E f \in FetchesOf(r) : fetch[f].state \in {"sent", "queued"}
                      \/ TimerDue(r)
    BY DEF NobodyIsForgotten
  <2>1. /\ Waiting(r) /\ Answerable(r) /\ Cared(r) /\ GoodAnswers(r)
        /\ scope[r].context \in Context
        /\ ctx \in [Context -> ContextType]
        /\ promise \in [Request -> [Name -> PromiseValue]]
        /\ scope \in [Request -> ScopeType]
    BY <1>2 DEF FInv, DInv, AInv, OthersAreWaiting, IInv, TypeOK, ContextOwnership
  <2>2. ~HandlerOf(r) /\ ~MayStillRespond(r) /\ ~Runs(r)
    BY DEF HandlerOf, InHandler, MayStillRespond, Runs, InScript
  <2>3. ASSUME NEW n \in Name, promise[r][n] \notin Fulfilled
        PROVE  promise[r][n] = "pending"
    <3>1. promise[r][n] \in PromiseValue /\ promise[r][n] # "rejected"
      BY <1>2, <2>1 DEF FInv, NothingRejected
    <3> QED BY <2>3, <3>1 DEF PromiseValue
  <2>4. AwaitsPromise(r, scope[r], promise[r])
    <3>1. CASE scope[r].sent
      <4>1. PICK n \in scope[r].waits : promise[r][n] \notin Fulfilled
        BY <2>1, <3>1 DEF Waiting
      <4>2. n \in Name
        BY <2>1 DEF ScopeType
      <4> QED BY <2>3, <4>1, <4>2 DEF AwaitsPromise
    <3>2. CASE ~scope[r].sent
      <4>1. /\ Saved(r) # None /\ scope[r].response = None /\ ~scope[r].error
            /\ Saved(r)[1] = r /\ ~SavedFulfilled(scope[r].context)
        BY <2>1, <2>2, <3>2 DEF Answerable, GoodAnswers, Responded, NotOfAnother, Waiting
      <4>2. PICK n \in Name : Saved(r) = <<r, n>>
        BY <2>1, <4>1 DEF Saved, ContextType
      <4> DEFINE saved == Saved(r)
      <4>4. saved = ctx[scope[r].context].promise /\ saved[1] = r /\ saved[2] = n
        BY <4>1, <4>2 DEF Saved
      <4> HIDE DEF saved
      <4>3. promise[r][n] \notin Fulfilled
        BY <4>1, <4>4 DEF SavedFulfilled, Saved
      <4> QED BY <2>3, <3>2, <4>1, <4>2, <4>3 DEF AwaitsPromise, Saved
    <3> QED BY <3>1, <3>2
  <2>5. FetchDue(r) \/ TimerDue(r)
    BY <2>1, <2>2, <2>4 DEF Cared
  <2>6. FetchDue(r) => \E f \in FetchesOf(r) : fetch[f].state \in {"sent", "queued"}
    BY <2>1 DEF Waiting, FetchDue, Unfinished
  <2> QED BY <2>5, <2>6
<1>3. FInv => NobodyIsForgotten
    BY <1>2
<1> QED BY <1>1, <1>3, InitFInv, PTL DEF Spec
=============================================================================
