------------------------- MODULE ReadableStreamProofs -------------------------
(***************************************************************************)
(* Proofs about ReadableStream, for any number of requests and streams.    *)
(*                                                                         *)
(* A stream has at most one reaction due, so what is due says which of its *)
(* promises was settled last.  The order of the microtasks does not matter *)
(* for any property: the queue is looked at as the set of its elements.    *)
(***************************************************************************)
EXTENDS ReadableStream, Integers, TLAPS

Elements(q) == {q[i] : i \in DOMAIN q}
OnePerStream(q) == \A i, j \in DOMAIN q : q[i].stream = q[j].stream => i = j

\* The reactions of s that are due.
DueOf(s) == {x \in Elements(jobs) : x.stream = s}

\* One stream: where its promises are, what is due and what its controller knows.
Consistent(s) ==
    /\ ~pullAgain[s]
    /\ start[s] # "none" => owner[s] # None
    /\ start[s] \in {"none", "pending"} => DueOf(s) = {}
    /\ started[s] => start[s] = "fulfilled"
    /\ ~started[s] => pull[s] = "none" /\ ~pulling[s]
    /\ pull[s] = "pending" => DueOf(s) = {}
    /\ pulling[s] <=> \/ pull[s] \in {"pending", "rejected"}
                      \/ \E x \in DueOf(s) : x.of = "pull"
    /\ \A x \in DueOf(s) :
          /\ x.of = "start" => ~started[s] /\ (x.rejected <=> start[s] = "rejected")
          /\ x.of = "pull" => started[s] /\ (x.rejected <=> pull[s] = "rejected")

\* The controllers of the reactions that are due still exist.
DueAreAlive ==
    "settles_in_time" \in Habits =>
        /\ fault = "none"
        /\ \A x \in Elements(jobs) : life[owner[x.stream]] # "dead"

IInv ==
    /\ TypeOK
    /\ turn # None => life[turn] = "live"
    /\ \A s \in Stream : Consistent(s)
    /\ DueAreAlive

-----------------------------------------------------------------------------
(* The queue of microtasks.                                                *)

\* What Reactions adds to a queue q.
LEMMA ReactionsAdd ==
    ASSUME NEW q \in Seq(Reaction), NEW s \in Stream, NEW of \in {"start", "pull"},
           NEW state \in CallAlgorithm
    PROVE  LET x == React(s, of, state)
               p == q \o Reactions(s, of, state)
           IN  /\ x \in Reaction /\ x.stream = s /\ x.of = of
               /\ x.rejected <=> state = "rejected"
               /\ p \in Seq(Reaction)
               /\ Elements(p) = IF state = "pending" THEN Elements(q) ELSE Elements(q) \cup {x}
               /\ OnePerStream(q) /\ (\A y \in Elements(q) : y.stream # s) => OnePerStream(p)
<1> DEFINE x == React(s, of, state)
           p == q \o Reactions(s, of, state)
<1>1. x \in Reaction /\ x.stream = s /\ x.of = of /\ (x.rejected <=> state = "rejected")
    BY DEF React, Reaction
<1> HIDE DEF x
<1>2. CASE state = "pending"
  <2>1. p = q
    BY <1>2 DEF Reactions
  <2> QED BY <1>1, <1>2, <2>1 DEF x
<1>3. CASE state # "pending"
  <2>1. p = q \o <<x>>
    BY <1>3 DEF Reactions, x
  <2> HIDE DEF p
  <2>2. /\ p \in Seq(Reaction) /\ Len(p) = Len(q) + 1
        /\ p[Len(q) + 1] = x
        /\ \A i \in 1 .. Len(q) : p[i] = q[i]
    BY <1>1, <2>1
  <2>3. DOMAIN q = 1 .. Len(q) /\ DOMAIN p = 1 .. Len(q) + 1 /\ Len(q) \in Nat
    BY <2>2
  <2>4. Elements(p) = Elements(q) \cup {x}
    BY <2>2, <2>3 DEF Elements
  <2>5. OnePerStream(q) /\ (\A y \in Elements(q) : y.stream # s) => OnePerStream(p)
    BY <1>1, <2>2, <2>3 DEF OnePerStream, Elements
  <2> QED BY <1>1, <1>3, <2>2, <2>4, <2>5 DEF x, p
<1> QED BY <1>2, <1>3

\* What is left when the first microtask has run.
LEMMA TailLeaves ==
    ASSUME NEW q \in Seq(Reaction), q # <<>>, OnePerStream(q)
    PROVE  /\ Head(q) \in Reaction /\ Head(q) \in Elements(q)
           /\ Tail(q) \in Seq(Reaction) /\ OnePerStream(Tail(q))
           /\ Elements(Tail(q)) = Elements(q) \ {Head(q)}
           /\ \A y \in Elements(q) : y.stream = Head(q).stream => y = Head(q)
<1> DEFINE p == Tail(q)
<1>1. /\ Len(q) \in Nat \ {0} /\ DOMAIN q = 1 .. Len(q) /\ Head(q) = q[1]
      /\ p \in Seq(Reaction) /\ DOMAIN p = 1 .. Len(q) - 1
      /\ \A i \in 1 .. Len(q) - 1 : p[i] = q[i + 1]
      /\ q[1] \in Reaction
    OBVIOUS
<1> HIDE DEF p
<1>2. OnePerStream(p)
  <2> SUFFICES ASSUME NEW i \in DOMAIN p, NEW j \in DOMAIN p, p[i].stream = p[j].stream
               PROVE  i = j
    BY DEF OnePerStream
  <2>1. i \in Int /\ j \in Int /\ i + 1 \in DOMAIN q /\ j + 1 \in DOMAIN q
    BY <1>1
  <2>2. q[i + 1].stream = q[j + 1].stream
    BY <1>1
  <2>3. i + 1 = j + 1
    BY <2>1, <2>2 DEF OnePerStream
  <2> QED BY <2>1, <2>3
<1>3. \A y \in Elements(q) : y.stream = Head(q).stream => y = Head(q)
    BY <1>1 DEF OnePerStream, Elements
<1>4. Elements(p) = Elements(q) \ {q[1]}
  <2>1. ASSUME NEW i \in DOMAIN p
        PROVE  p[i] \in Elements(q) /\ p[i] # q[1]
    <3>1. i + 1 \in DOMAIN q /\ p[i] = q[i + 1] /\ i + 1 # 1 /\ 1 \in DOMAIN q
      BY <1>1
    <3> QED BY <3>1 DEF OnePerStream, Elements
  <2>2. ASSUME NEW i \in DOMAIN q, q[i] # q[1]
        PROVE  q[i] \in Elements(p)
    <3>1. i - 1 \in DOMAIN p /\ p[i - 1] = q[i]
      BY <1>1, <2>2
    <3> QED BY <3>1 DEF Elements
  <2> QED BY <2>1, <2>2 DEF Elements
<1>5. q[1] \in Elements(q)
    BY <1>1 DEF Elements
<1> QED BY <1>1, <1>2, <1>3, <1>4, <1>5 DEF p

\* The queue of microtasks holds reactions.
LEMMA ElementsAreReactions ==
    ASSUME IInv
    PROVE  Elements(jobs) \subseteq Reaction
<1>1. \A i \in DOMAIN jobs : jobs[i] \in Reaction
    BY DEF IInv, TypeOK
<1> QED BY <1>1 DEF Elements

-----------------------------------------------------------------------------
(* The steps.                                                              *)

\* A step within a turn that concerns the stream s only.
LEMMA StreamStepKeepsIInv ==
    ASSUME IInv, TypeOK', NEW s \in Stream, Consistent(s)',
           UNCHANGED <<life, turn, fault>>,
           \A t \in Stream : t # s =>
              /\ owner'[t] = owner[t] /\ start'[t] = start[t] /\ pull'[t] = pull[t]
              /\ started'[t] = started[t] /\ pulling'[t] = pulling[t]
              /\ pullAgain'[t] = pullAgain[t],
           \A x : x.stream # s => (x \in Elements(jobs)' <=> x \in Elements(jobs)),
           "settles_in_time" \in Habits /\ DueOf(s)' # {} => life[owner'[s]] # "dead"
    PROVE  IInv'
<1>1. ASSUME NEW t \in Stream, t # s
      PROVE  Consistent(t)'
  <2>1. DueOf(t)' = DueOf(t)
    BY <1>1 DEF DueOf
  <2> QED BY <1>1, <2>1 DEF IInv, Consistent
<1>2. DueAreAlive'
  <2> SUFFICES ASSUME "settles_in_time" \in Habits
               PROVE  /\ fault' = "none"
                      /\ \A x \in Elements(jobs)' : life'[owner'[x.stream]] # "dead"
    BY DEF DueAreAlive
  <2>1. fault' = "none"
    BY DEF IInv, DueAreAlive
  <2>2. ASSUME NEW x \in Elements(jobs)'
        PROVE  life'[owner'[x.stream]] # "dead"
    <3>1. CASE x.stream = s
      BY <2>2, <3>1 DEF DueOf
    <3>2. CASE x.stream # s
      <4>1. x \in Elements(jobs)
        BY <2>2, <3>2
      <4>2. x \in Reaction
        BY <4>1, ElementsAreReactions
      <4> QED BY <3>2, <4>1, <4>2 DEF IInv, DueAreAlive, Reaction
    <3> QED BY <3>1, <3>2
  <2> QED BY <2>1, <2>2
<1> QED BY <1>1, <1>2 DEF IInv

\* A settled promise of s has its reaction due: the source started or pulled.
LEMMA SettleKeepsIInv ==
    ASSUME IInv, NEW s \in Stream, NEW of \in {"start", "pull"}, Settle(s, of)
    PROVE  IInv'
<1>1. PICK state \in {"fulfilled", "rejected"} :
        /\ IF of = "start"
           THEN start' = [start EXCEPT ![s] = state] /\ UNCHANGED pull
           ELSE pull' = [pull EXCEPT ![s] = state] /\ UNCHANGED start
        /\ jobs' = jobs \o Reactions(s, of, state)
    BY DEF Settle
<1>2. /\ TypeOK /\ Consistent(s) /\ state \in CallAlgorithm
      /\ UNCHANGED <<life, turn, owner, controllers, fault>>
      /\ of = "start" => start[s] = "pending"
      /\ of = "pull" => pull[s] = "pending"
      /\ "settles_in_time" \in Habits => life[owner[s]] # "dead"
    BY DEF Settle, IInv, CallAlgorithm
<1> DEFINE x == React(s, of, state)
<1>3. /\ x \in Reaction /\ x.stream = s /\ x.of = of
      /\ x.rejected <=> state = "rejected"
      /\ jobs' \in Seq(Reaction)
      /\ Elements(jobs') = Elements(jobs) \cup {x}
      /\ OnePerStream(jobs) /\ (\A y \in Elements(jobs) : y.stream # s) => OnePerStream(jobs')
    BY <1>1, <1>2, ReactionsAdd DEF TypeOK
<1> HIDE DEF x
<1>4. DueOf(s) = {}
    BY <1>2 DEF Consistent
<1>5. OnePerStream(jobs')
    BY <1>2, <1>3, <1>4 DEF DueOf, TypeOK, OnePerStream
<1>6. TypeOK'
  <2>1. start' \in [Stream -> Promise] /\ pull' \in [Stream -> Promise]
    BY <1>1, <1>2 DEF TypeOK, Promise
  <2> QED BY <1>2, <1>3, <1>5, <2>1 DEF TypeOK, OnePerStream, controllers
<1>7. Elements(jobs)' = Elements(jobs')
    BY DEF Elements
<1>8. DueOf(s)' = {x}
    BY <1>3, <1>4, <1>7 DEF DueOf
<1>9. Consistent(s)'
  <2>1. CASE of = "start"
    <3>1. start'[s] = state /\ UNCHANGED pull
      BY <1>1, <1>2, <2>1 DEF TypeOK
    <3>2. ~started[s]
      BY <1>2, <2>1 DEF Consistent
    <3> QED BY <1>2, <1>3, <1>8, <2>1, <3>1, <3>2 DEF Consistent, controllers
  <2>2. CASE of = "pull"
    <3>1. pull'[s] = state /\ UNCHANGED start
      BY <1>1, <1>2, <2>2 DEF TypeOK
    <3>2. started[s] /\ pulling[s]
      BY <1>2, <2>2 DEF Consistent
    <3> QED BY <1>2, <1>3, <1>8, <2>2, <3>1, <3>2 DEF Consistent, controllers
  <2> QED BY <2>1, <2>2
<1>10. \A y : y.stream # s => (y \in Elements(jobs)' <=> y \in Elements(jobs))
    BY <1>3, <1>7
<1>11. \A t \in Stream : t # s => start'[t] = start[t] /\ pull'[t] = pull[t]
    BY <1>1, <1>2 DEF TypeOK
<1> QED BY <1>2, <1>6, <1>9, <1>10, <1>11, StreamStepKeepsIInv DEF controllers

\* A new stream belongs to the request whose turn it is.
LEMMA NewStreamKeepsIInv ==
    ASSUME IInv, NEW s \in Stream, NewStream(s)
    PROVE  IInv'
<1>1. PICK state \in CallAlgorithm :
        /\ start' = [start EXCEPT ![s] = state]
        /\ jobs' = jobs \o Reactions(s, "start", state)
    BY DEF NewStream
<1>2. /\ TypeOK /\ Consistent(s) /\ turn # None /\ owner[s] = None
      /\ owner' = [owner EXCEPT ![s] = turn]
      /\ UNCHANGED <<life, turn, pull, controllers, fault>>
    BY DEF NewStream, IInv
<1> DEFINE x == React(s, "start", state)
<1>3. /\ x \in Reaction /\ x.stream = s /\ x.of = "start"
      /\ x.rejected <=> state = "rejected"
      /\ jobs' \in Seq(Reaction)
      /\ Elements(jobs') = IF state = "pending" THEN Elements(jobs) ELSE Elements(jobs) \cup {x}
      /\ OnePerStream(jobs) /\ (\A y \in Elements(jobs) : y.stream # s) => OnePerStream(jobs')
    BY <1>1, <1>2, ReactionsAdd DEF TypeOK
<1> HIDE DEF x
<1>4. DueOf(s) = {} /\ ~started[s] /\ start[s] = "none"
    BY <1>2 DEF Consistent
<1>5. OnePerStream(jobs')
    BY <1>2, <1>3, <1>4 DEF DueOf, TypeOK, OnePerStream
<1>6. start'[s] = state /\ owner'[s] = turn
      /\ start' \in [Stream -> Promise] /\ owner' \in [Stream -> Request \cup {None}]
    BY <1>1, <1>2 DEF TypeOK, Promise, CallAlgorithm
<1>7. TypeOK'
    BY <1>2, <1>3, <1>5, <1>6 DEF TypeOK, OnePerStream, controllers
<1>8. Elements(jobs)' = Elements(jobs')
    BY DEF Elements
<1>9. DueOf(s)' = IF state = "pending" THEN {} ELSE {x}
    BY <1>3, <1>4, <1>8 DEF DueOf
<1>10. Consistent(s)'
    BY <1>2, <1>3, <1>4, <1>6, <1>9 DEF Consistent, controllers, CallAlgorithm
<1>11. \A y : y.stream # s => (y \in Elements(jobs)' <=> y \in Elements(jobs))
    BY <1>3, <1>8
<1>12. \A t \in Stream : t # s => start'[t] = start[t] /\ owner'[t] = owner[t]
    BY <1>1, <1>2 DEF TypeOK
<1>13. life[owner'[s]] # "dead"
    BY <1>2, <1>6 DEF IInv
<1> QED BY <1>2, <1>7, <1>10, <1>11, <1>12, <1>13, StreamStepKeepsIInv DEF controllers

\* CallPullIfNeeded for a stream that was started and is not pulling calls pull.
LEMMA CallPullKeepsIInv ==
    ASSUME IInv, NEW s \in Stream, jobs # <<>>, Head(jobs).stream = s,
           Head(jobs).of = "start", ~Head(jobs).rejected,
           "settles_in_time" \in Habits => life[owner[s]] # "dead",
           StartResolved(s), UNCHANGED <<life, turn, owner, start, fault>>
    PROVE  IInv'
<1>1. /\ TypeOK /\ Consistent(s) /\ jobs \in Seq(Reaction) /\ OnePerStream(jobs)
    BY DEF IInv, TypeOK, OnePerStream
<1> DEFINE h == Head(jobs)
           q == Tail(jobs)
<1>2. /\ h \in Reaction /\ h \in Elements(jobs)
      /\ q \in Seq(Reaction) /\ OnePerStream(q)
      /\ Elements(q) = Elements(jobs) \ {h}
      /\ \A y \in Elements(jobs) : y.stream = s => y = h
    BY <1>1, TailLeaves
<1>3. /\ h \in DueOf(s) /\ ~started[s] /\ start[s] = "fulfilled"
      /\ ~pulling[s] /\ pull[s] = "none" /\ ~pullAgain[s]
  <2>1. h \in DueOf(s)
    BY <1>2 DEF DueOf
  <2>2. ~started[s] /\ start[s] # "rejected" /\ start[s] \notin {"none", "pending"}
    BY <1>1, <2>1 DEF Consistent
  <2>3. start[s] \in Promise
    BY <1>1 DEF TypeOK
  <2> QED BY <1>1, <2>1, <2>2, <2>3 DEF Consistent, Promise
<1> HIDE DEF h, q
<1>4. PICK state \in CallAlgorithm :
        /\ pull' = [pull EXCEPT ![s] = state]
        /\ jobs' = q \o Reactions(s, "pull", state)
    BY <1>3 DEF StartResolved, CallPullIfNeeded, ShouldCallPull, HighWaterMark, q
<1>5. /\ started'[s] /\ pulling'[s] /\ ~pullAgain'[s]
      /\ started' \in [Stream -> BOOLEAN] /\ pulling' \in [Stream -> BOOLEAN]
      /\ pullAgain' \in [Stream -> BOOLEAN]
      /\ \A t \in Stream : t # s => /\ started'[t] = started[t]
                                   /\ pulling'[t] = pulling[t]
                                   /\ pullAgain'[t] = pullAgain[t]
  <2>1. started' = [started EXCEPT ![s] = TRUE]
    BY DEF StartResolved
  <2>2. pulling' = [pulling EXCEPT ![s] = pulling[s] \/ (ShouldCallPull(TRUE) /\ ~pulling[s])]
    BY DEF StartResolved, CallPullIfNeeded
  <2>3. pullAgain' = [pullAgain EXCEPT
                        ![s] = pullAgain[s] \/ (ShouldCallPull(TRUE) /\ pulling[s])]
    BY DEF StartResolved, CallPullIfNeeded
  <2>4. ShouldCallPull(TRUE)
    BY DEF ShouldCallPull, HighWaterMark
  <2>5. /\ started \in [Stream -> BOOLEAN] /\ pulling \in [Stream -> BOOLEAN]
        /\ pullAgain \in [Stream -> BOOLEAN]
    BY <1>1 DEF TypeOK
  <2>6. started'[s] /\ pulling'[s] /\ ~pullAgain'[s]
    BY <1>3, <2>1, <2>2, <2>3, <2>4, <2>5
  <2>7. /\ started' \in [Stream -> BOOLEAN] /\ pulling' \in [Stream -> BOOLEAN]
        /\ pullAgain' \in [Stream -> BOOLEAN]
    BY <2>1, <2>2, <2>3, <2>5
  <2> QED BY <2>1, <2>2, <2>3, <2>5, <2>6, <2>7
<1> DEFINE x == React(s, "pull", state)
<1>6. /\ x \in Reaction /\ x.stream = s /\ x.of = "pull"
      /\ x.rejected <=> state = "rejected"
      /\ jobs' \in Seq(Reaction)
      /\ Elements(jobs') = IF state = "pending" THEN Elements(q) ELSE Elements(q) \cup {x}
      /\ OnePerStream(q) /\ (\A y \in Elements(q) : y.stream # s) => OnePerStream(jobs')
    BY <1>2, <1>4, ReactionsAdd
<1> HIDE DEF x
<1>7. \A y \in Elements(q) : y.stream # s
    BY <1>2
<1>8. TypeOK'
  <2>1. /\ pull' \in [Stream -> Promise] /\ started' \in [Stream -> BOOLEAN]
        /\ pulling' \in [Stream -> BOOLEAN] /\ pullAgain' \in [Stream -> BOOLEAN]
    <3>1. pull' \in [Stream -> Promise]
      BY <1>1, <1>4 DEF TypeOK, Promise, CallAlgorithm
    <3> QED BY <1>5, <3>1
  <2> QED BY <1>1, <1>2, <1>6, <1>7, <2>1 DEF TypeOK, OnePerStream
<1>9. Elements(jobs)' = Elements(jobs')
    BY DEF Elements
<1>10. DueOf(s)' = IF state = "pending" THEN {} ELSE {x}
    BY <1>6, <1>7, <1>9 DEF DueOf
<1>11. /\ pull'[s] = state /\ started'[s] /\ pulling'[s] /\ ~pullAgain'[s]
       /\ \A t \in Stream : t # s =>
              /\ pull'[t] = pull[t] /\ started'[t] = started[t]
              /\ pulling'[t] = pulling[t] /\ pullAgain'[t] = pullAgain[t]
  <2>1. pull'[s] = state /\ \A t \in Stream : t # s => pull'[t] = pull[t]
    BY <1>1, <1>4 DEF TypeOK
  <2> QED BY <1>5, <2>1
<1>12. Consistent(s)'
    BY <1>1, <1>3, <1>6, <1>10, <1>11 DEF Consistent, CallAlgorithm
<1>13. \A y : y.stream # s => (y \in Elements(jobs)' <=> y \in Elements(jobs))
  <2>1. h.stream = s
    BY DEF h
  <2> QED BY <1>2, <1>6, <1>9, <2>1
<1> QED BY <1>8, <1>11, <1>12, <1>13, StreamStepKeepsIInv

\* A reaction that calls nothing: pull was fulfilled, or one was rejected.
LEMMA QuietReactionKeepsIInv ==
    ASSUME IInv, NEW s \in Stream, jobs # <<>>, Head(jobs).stream = s,
           Head(jobs).of = "pull" \/ Head(jobs).rejected,
           "settles_in_time" \in Habits => life[owner[s]] # "dead",
           IF Head(jobs).rejected THEN UNCHANGED pulling
                                  ELSE pulling' = [pulling EXCEPT ![s] = FALSE],
           jobs' = Tail(jobs),
           UNCHANGED <<life, turn, owner, start, pull, started, pullAgain, fault>>
    PROVE  IInv'
<1>1. /\ TypeOK /\ Consistent(s) /\ jobs \in Seq(Reaction) /\ OnePerStream(jobs)
    BY DEF IInv, TypeOK, OnePerStream
<1> DEFINE h == Head(jobs)
<1>2. /\ h \in Reaction /\ h \in Elements(jobs)
      /\ jobs' \in Seq(Reaction) /\ OnePerStream(jobs')
      /\ Elements(jobs') = Elements(jobs) \ {h}
      /\ \A y \in Elements(jobs) : y.stream = s => y = h
    BY <1>1, TailLeaves
<1>3. h \in DueOf(s) /\ DueOf(s) = {h}
    BY <1>2 DEF DueOf
<1> HIDE DEF h
<1>4. Elements(jobs)' = Elements(jobs')
    BY DEF Elements
<1>5. DueOf(s)' = {}
    BY <1>2, <1>4 DEF DueOf
<1>6. pulling' \in [Stream -> BOOLEAN]
    BY <1>1 DEF TypeOK
<1>7. TypeOK'
    BY <1>1, <1>2, <1>6 DEF TypeOK, OnePerStream
<1>8. \A t \in Stream : t # s => pulling'[t] = pulling[t]
    BY <1>1 DEF TypeOK
<1>9. Consistent(s)'
  <2>1. CASE h.rejected
    <3>1. h.of = "pull" => pull[s] = "rejected"
      BY <1>1, <1>3, <2>1 DEF Consistent
    <3>2. h.of = "start" \/ h.of = "pull"
      BY <1>2 DEF Reaction
    <3>3. UNCHANGED pulling
      BY <2>1 DEF h
    <3>4. pulling[s] <=> pull[s] \in {"pending", "rejected"}
      BY <1>1, <1>3, <3>1, <3>2 DEF Consistent
    <3> QED BY <1>1, <1>5, <3>3, <3>4 DEF Consistent
  <2>2. CASE ~h.rejected
    <3>1. h.of = "pull" /\ pulling'[s] = FALSE
      BY <1>1, <2>2 DEF h, TypeOK
    <3>2. started[s] /\ pull[s] # "rejected" /\ pull[s] # "pending"
      BY <1>1, <1>3, <2>2, <3>1 DEF Consistent
    <3> QED BY <1>1, <1>5, <3>1, <3>2 DEF Consistent
  <2> QED BY <2>1, <2>2
<1>10. \A y : y.stream # s => (y \in Elements(jobs)' <=> y \in Elements(jobs))
  <2>1. h.stream = s
    BY DEF h
  <2> QED BY <1>2, <1>4, <2>1
<1> QED BY <1>5, <1>7, <1>8, <1>9, <1>10, StreamStepKeepsIInv

\* The first microtask runs, or finds its controller gone.
LEMMA RunReactionKeepsIInv ==
    ASSUME IInv, RunReaction
    PROVE  IInv'
<1> DEFINE h == Head(jobs)
           s == h.stream
<1>1. /\ jobs # <<>> /\ jobs \in Seq(Reaction) /\ TypeOK /\ OnePerStream(jobs)
      /\ UNCHANGED <<life, turn, owner, start>>
    BY DEF RunReaction, IInv, TypeOK, OnePerStream
<1>2. h \in Elements(jobs) /\ h \in Reaction
    BY <1>1, TailLeaves
<1>3. s \in Stream /\ h \in DueOf(s) /\ Consistent(s)
    BY <1>2 DEF Reaction, DueOf, IInv
<1>4. CASE life[owner[s]] = "dead"
  <2>1. fault' = "use_after_free" /\ UNCHANGED <<pull, jobs, controllers>>
    BY <1>4 DEF RunReaction
  <2>2. "settles_in_time" \notin Habits
    BY <1>2, <1>4 DEF IInv, DueAreAlive
  <2>3. TypeOK'
    BY <1>1, <2>1 DEF TypeOK, controllers
  <2> QED BY <1>1, <2>1, <2>2, <2>3
          DEF IInv, Consistent, DueOf, Elements, DueAreAlive, controllers
<1>5. CASE life[owner[s]] # "dead"
  <2>1. /\ UNCHANGED fault
        /\ \/ Starts(h) /\ StartResolved(s)
           \/ h.of = "pull" /\ ~h.rejected /\ PullResolved(s)
           \/ h.rejected /\ ~Starts(h) /\ Rejected
    BY <1>5 DEF RunReaction
  <2>2. CASE Starts(h) /\ StartResolved(s)
    BY <1>1, <1>3, <1>5, <2>1, <2>2, CallPullKeepsIInv DEF Starts
  <2>3. CASE h.of = "pull" /\ ~h.rejected /\ PullResolved(s)
    <3>1. /\ pulling' = [pulling EXCEPT ![s] = FALSE] /\ jobs' = Tail(jobs)
          /\ UNCHANGED <<started, pull, pullAgain>>
      BY <1>3, <2>3 DEF PullResolved, AfterPull, Consistent
    <3> QED BY <1>1, <1>3, <1>5, <2>1, <2>3, <3>1, QuietReactionKeepsIInv
  <2>4. CASE h.rejected /\ Rejected
    BY <1>1, <1>3, <1>5, <2>1, <2>4, QuietReactionKeepsIInv DEF Rejected, controllers
  <2> QED BY <2>1, <2>2, <2>3, <2>4
<1> QED BY <1>4, <1>5

\* A turn begins or ends: no microtask is left when a scope is deleted.
LEMMA TurnKeepsIInv ==
    ASSUME IInv, TurnEnds \/ (\E r \in Request : TurnBegins(r))
    PROVE  IInv'
<1>1. /\ TypeOK /\ UNCHANGED <<owner, promises, controllers, fault>>
      /\ UNCHANGED <<start, pull, jobs, started, pulling, pullAgain>>
    BY DEF IInv, TurnEnds, TurnBegins, promises, controllers
<1>2. \A s \in Stream : Consistent(s)'
    BY <1>1 DEF IInv, Consistent, DueOf, Elements
<1>3. CASE TurnEnds
  <2>1. PICK l \in {"live", "dead"} : life' = [life EXCEPT ![turn] = l]
    BY <1>3 DEF TurnEnds
  <2>2. turn \in Request /\ turn' = None /\ jobs = <<>>
    BY <1>1, <1>3 DEF TurnEnds, CheckpointDone, TypeOK
  <2>3. TypeOK'
    BY <1>1, <2>1, <2>2 DEF TypeOK
  <2>4. DueAreAlive'
    BY <1>1, <2>2 DEF IInv, DueAreAlive, Elements
  <2> QED BY <1>2, <2>2, <2>3, <2>4 DEF IInv
<1>4. ASSUME NEW r \in Request, TurnBegins(r)
      PROVE  IInv'
  <2>1. turn' = r /\ life' = [life EXCEPT ![r] = "live"]
    BY <1>4 DEF TurnBegins
  <2>2. TypeOK' /\ life'[turn'] = "live"
    BY <1>1, <2>1 DEF TypeOK
  <2>3. DueAreAlive'
    <3>1. Elements(jobs)' = Elements(jobs)
      BY <1>1 DEF Elements
    <3>2. \A q \in Request \cup {None} : life[q] # "dead" => life'[q] # "dead"
      BY <1>1, <2>1 DEF TypeOK
    <3>3. \A x \in Elements(jobs) : owner[x.stream] \in Request \cup {None}
      BY <1>1, ElementsAreReactions DEF Reaction, TypeOK
    <3> QED BY <1>1, <3>1, <3>2, <3>3 DEF IInv, DueAreAlive
  <2> QED BY <1>2, <2>2, <2>3 DEF IInv
<1> QED BY <1>3, <1>4

\* Every step keeps the invariant.
LEMMA NextKeepsIInv ==
    ASSUME IInv, [Next]_vars
    PROVE  IInv'
<1>1. CASE UNCHANGED vars
  <2>1. /\ UNCHANGED <<life, turn, owner, start, pull, jobs>>
        /\ UNCHANGED <<started, pulling, pullAgain, fault>>
    BY <1>1 DEF vars, promises, controllers
  <2>2. TypeOK'
    BY <2>1 DEF IInv, TypeOK
  <2> QED BY <2>1, <2>2 DEF IInv, Consistent, DueOf, Elements, DueAreAlive
<1>2. CASE TurnEnds \/ (\E r \in Request : TurnBegins(r))
    BY <1>2, TurnKeepsIInv
<1>3. ASSUME NEW s \in Stream, NewStream(s)
      PROVE  IInv'
    BY <1>3, NewStreamKeepsIInv
<1>4. ASSUME NEW s \in Stream, NEW of \in {"start", "pull"}, Settle(s, of)
      PROVE  IInv'
    BY <1>4, SettleKeepsIInv
<1>5. CASE RunReaction
    BY <1>5, RunReactionKeepsIInv
<1> QED BY <1>1, <1>2, <1>3, <1>4, <1>5 DEF Next

\* There is no stream yet.
LEMMA InitEstablishesIInv ==
    ASSUME Init
    PROVE  IInv
<1>1. Elements(jobs) = {} /\ DOMAIN jobs = {} /\ jobs \in Seq(Reaction)
    BY DEF Init, Elements
<1>2. TypeOK
  <2>1. /\ life \in [Request -> {"none", "live", "dead"}]
        /\ turn \in Request \cup {None}
        /\ owner \in [Stream -> Request \cup {None}]
        /\ start \in [Stream -> Promise] /\ pull \in [Stream -> Promise]
    BY DEF Init, Promise
  <2>2. /\ started \in [Stream -> BOOLEAN] /\ pulling \in [Stream -> BOOLEAN]
        /\ pullAgain \in [Stream -> BOOLEAN] /\ fault \in {"none", "use_after_free"}
    BY DEF Init
  <2> QED BY <1>1, <2>1, <2>2 DEF TypeOK
<1>3. ASSUME NEW s \in Stream
      PROVE  Consistent(s)
  <2>1. DueOf(s) = {}
    BY <1>1 DEF DueOf
  <2>2. start[s] = "none" /\ pull[s] = "none"
    BY DEF Init
  <2>3. ~started[s] /\ ~pulling[s] /\ ~pullAgain[s]
    BY DEF Init
  <2> QED BY <2>1, <2>2, <2>3 DEF Consistent
<1>4. DueAreAlive
    BY <1>1 DEF Init, DueAreAlive
<1>5. turn = None
    BY DEF Init
<1> QED BY <1>2, <1>3, <1>4, <1>5 DEF IInv

\* The inductive invariant holds, whatever the scripts do.
THEOREM Invariance == Spec => []IInv
<1>1. Init => IInv
    BY InitEstablishesIInv
<1>2. IInv /\ [Next]_vars => IInv'
    BY NextKeepsIInv
<1> QED BY <1>1, <1>2, PTL DEF Spec

-----------------------------------------------------------------------------
(* The properties.                                                         *)

\* The variables keep their types, and a stream never has two reactions due.
THEOREM TypeCorrect == Spec => []TypeOK
<1>1. IInv => TypeOK
    BY DEF IInv
<1> QED BY <1>1, Invariance, PTL

\* However the promises of many streams are settled, a source is pulled only
\* after its start was fulfilled.
THEOREM SourcesArePulledAfterStart == Spec => []PulledAfterStart
<1>1. IInv => PulledAfterStart
    BY DEF IInv, Consistent, PulledAfterStart
<1> QED BY <1>1, Invariance, PTL

\* The reactions in the queue are those that are due.
LEMMA JobsAreDue ==
    ASSUME IInv, NEW i \in DOMAIN jobs
    PROVE  jobs[i].stream \in Stream /\ jobs[i] \in DueOf(jobs[i].stream)
<1>1. jobs[i] \in Elements(jobs)
    BY DEF Elements
<1>2. jobs[i] \in Reaction
    BY <1>1, ElementsAreReactions
<1> QED BY <1>1, <1>2 DEF DueOf, Reaction

\* pulling_ says whether a pull is under way: a second one never overlaps it.
THEOREM PullingFlagIsExact == Spec => []PullingIsExact
<1>1. ASSUME IInv PROVE PullingIsExact
  <2> SUFFICES ASSUME NEW s \in Stream
               PROVE  pulling[s] <=>
                        \/ pull[s] \in {"pending", "rejected"}
                        \/ \E i \in DOMAIN jobs : jobs[i].stream = s /\ jobs[i].of = "pull"
    BY DEF PullingIsExact
  <2>1. pulling[s] <=> \/ pull[s] \in {"pending", "rejected"}
                       \/ \E x \in DueOf(s) : x.of = "pull"
    BY <1>1 DEF IInv, Consistent
  <2>2. (\E x \in DueOf(s) : x.of = "pull")
            <=> \E i \in DOMAIN jobs : jobs[i].stream = s /\ jobs[i].of = "pull"
    BY DEF DueOf, Elements
  <2> QED BY <2>1, <2>2
<1> QED BY <1>1, Invariance, PTL

\* The assertion that the code quotes from the standard and does not check.
THEOREM AssertionsAreTrue == Spec => []AssertionsHold
<1>1. ASSUME IInv PROVE AssertionsHold
  <2> SUFFICES ASSUME NEW i \in DOMAIN jobs, jobs[i].of = "start"
               PROVE  ~pulling[jobs[i].stream] /\ ~started[jobs[i].stream]
    BY DEF AssertionsHold
  <2>1. jobs[i].stream \in Stream /\ jobs[i] \in DueOf(jobs[i].stream)
    BY <1>1, JobsAreDue
  <2>2. Consistent(jobs[i].stream)
    BY <1>1, <2>1 DEF IInv
  <2> QED BY <2>1, <2>2 DEF Consistent
<1> QED BY <1>1, Invariance, PTL

\* If no promise of a stream is settled after its request has ended, no reaction
\* finds its controller deleted.
THEOREM ReactionsFindTheirController ==
    ASSUME "settles_in_time" \in Habits
    PROVE  Spec => []NoFault
<1>1. IInv => NoFault
    BY DEF IInv, DueAreAlive, NoFault
<1> QED BY <1>1, Invariance, PTL
=============================================================================
