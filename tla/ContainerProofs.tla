-------------------------- MODULE ContainerProofs ---------------------------
(***************************************************************************)
(* Proofs of the invariants of Container, and of AnswersStick.             *)
(*                                                                         *)
(* What must be added to the invariants says how a call keeps in step with *)
(* the map: while a worker is being made its key is not in the map of the  *)
(* thread, so installing it replaces nothing; what a thread was last told  *)
(* by a script is the script of the worker it has cached; and a call that  *)
(* looks for its entry has a name for it.                                  *)
(***************************************************************************)
EXTENDS Container, TLAPS

Making(c) == c.at \in {"manifest", "parse", "entry", "read", "install"}

CallsFollowTheMap ==
    \A t \in Thread : LET c == call[t] IN
        /\ c.at # "idle" => c.key \in Key
        /\ c.at \in {"entry", "read"} => c.name \in Name
        /\ c.worker # None => c.at = "serve"
        /\ Making(c) => workers[t][c.key] = None
        /\ c.at = "serve" =>
              IF c.worker = None THEN workers[t][c.key] = None
              ELSE worker[c.worker].error = None \/ workers[t][c.key] = None

WorkersHaveScripts ==
    \A w \in Worker : worker[w].live =>
        /\ worker[w].thread \in Thread /\ worker[w].key \in Key
        /\ worker[w].error = None => worker[w].script \in Script

ToldByCached ==
    \A t \in Thread, k \in Key : told[t][k] \in Script =>
        workers[t][k] # None /\ worker[workers[t][k]].script = told[t][k]

IInv ==
    /\ TypeOK
    /\ WorkersStayHome
    /\ GoodWorkersAreCached
    /\ CallsFollowTheMap
    /\ WorkersHaveScripts
    /\ ToldByCached

\* No worker has been made yet.
LEMMA InitIInv == Init => IInv
<1> SUFFICES ASSUME Init PROVE IInv
    OBVIOUS
<1>1. TypeOK
    BY DEF Init, TypeOK, NoWorker, WorkerType, NoCall, CallType
<1>2. WorkersStayHome /\ GoodWorkersAreCached /\ WorkersHaveScripts
    BY DEF Init, WorkersStayHome, GoodWorkersAreCached, WorkersHaveScripts,
           NoWorker, NoCall
<1>3. CallsFollowTheMap
    BY DEF Init, CallsFollowTheMap, Making, NoCall
<1>4. ToldByCached
    BY NoneAssumption DEF Init, ToldByCached
<1> QED BY <1>1, <1>2, <1>3, <1>4 DEF IInv

\* An edit changes nothing the invariant is about but the files.
LEMMA EditKeepsIInv ==
    ASSUME IInv,
           \/ \E k \in Key, m \in ManifestFile : EditManifest(k, m)
           \/ \E k \in Key, n \in Name, e \in BadEntry \cup Script : EditEntry(k, n, e)
    PROVE  IInv'
<1>1. TypeOK'
  <2>1. amiss' \in [Thread -> BOOLEAN]
    BY DEF IInv, TypeOK, EditManifest, EditEntry, Remember
  <2>2. entry' \in [Key -> [Name -> BadEntry \cup Script]]
    <3>1. CASE entry' = entry
      BY <3>1 DEF IInv, TypeOK
    <3>2. ASSUME NEW k \in Key, NEW n \in Name, NEW e \in BadEntry \cup Script,
                 entry' = [entry EXCEPT ![k][n] = e]
          PROVE  entry' \in [Key -> [Name -> BadEntry \cup Script]]
      <4>1. [entry[k] EXCEPT ![n] = e] \in [Name -> BadEntry \cup Script]
        BY DEF IInv, TypeOK
      <4> QED BY <3>2, <4>1 DEF IInv, TypeOK
    <3> QED BY <3>1, <3>2 DEF EditManifest, EditEntry
  <2>3. /\ manifest' \in [Key -> ManifestFile]
        /\ UNCHANGED <<workers, worker, call, told, fault>>
    BY DEF IInv, TypeOK, EditManifest, EditEntry
  <2> QED BY <2>1, <2>2, <2>3 DEF IInv, TypeOK
<1>2. UNCHANGED <<workers, worker, call, told>>
    BY DEF EditManifest, EditEntry
<1> QED BY <1>1, <1>2
        DEF IInv, WorkersStayHome, GoodWorkersAreCached, CallsFollowTheMap,
            Making, WorkersHaveScripts, ToldByCached

\* A step of ReadManifest leaves the thread making its worker.
LEMMA ReadManifestKeepsIInv ==
    ASSUME IInv, NEW t \in Thread,
           FindManifest(t) \/ ParseManifest(t) \/ FindEntry(t) \/ ReadEntry(t)
    PROVE  IInv'
<1>1. /\ UNCHANGED <<manifest, entry, workers, worker, told, amiss>>
      /\ fault' \in BOOLEAN
    BY DEF IInv, TypeOK, FindManifest, ParseManifest, FindEntry, ReadEntry
<1>2. Making(call[t]) /\ call[t].key \in Key /\ call[t].worker = None
    BY DEF IInv, TypeOK, CallType, CallsFollowTheMap, Making,
           FindManifest, ParseManifest, FindEntry, ReadEntry
<1>3. PICK c \in CallType :
          /\ call' = [call EXCEPT ![t] = c]
          /\ Making(c) /\ c.key = call[t].key /\ c.worker = None
          /\ c.at \in {"entry", "read"} => c.name \in Name
  <2>1. call[t] \in CallType /\ call = [call EXCEPT ![t] = call[t]]
    BY DEF IInv, TypeOK
  <2>2. ASSUME NEW at \in {"parse", "read"}, Goes(t, at),
               at = "read" => call[t].name \in Name
        PROVE  /\ [call[t] EXCEPT !.at = at] \in CallType
               /\ call' = [call EXCEPT ![t] = [call[t] EXCEPT !.at = at]]
               /\ Making([call[t] EXCEPT !.at = at])
               /\ at = "read" => [call[t] EXCEPT !.at = at].name \in Name
               /\ [call[t] EXCEPT !.at = at].at = at
               /\ [call[t] EXCEPT !.at = at].key = call[t].key
               /\ [call[t] EXCEPT !.at = at].worker = None
    BY <1>2, <2>1, <2>2 DEF Goes, CallType, Making
  <2>3. ASSUME NEW e \in Error \cup {None}, Fails(t, e)
        PROVE  LET c == [call[t] EXCEPT !.at = "install", !.error = e]
               IN  /\ c \in CallType
                   /\ call' = [call EXCEPT ![t] = c]
                   /\ Making(c) /\ c.key = call[t].key /\ c.worker = None
                   /\ c.at = "install"
    BY <1>2, <2>1, <2>3 DEF Fails, CallType, Making
  <2>8. ASSUME NEW n \in Name,
               call' = [call EXCEPT ![t].at = "entry", ![t].name = n]
        PROVE  LET c == [call[t] EXCEPT !.at = "entry", !.name = n]
               IN  /\ c \in CallType
                   /\ call' = [call EXCEPT ![t] = c]
                   /\ Making(c) /\ c.key = call[t].key /\ c.worker = None
                   /\ c.name \in Name
    BY <1>2, <2>1, <2>8 DEF CallType, Making
  <2>4. CASE FindManifest(t)
    BY <2>2, <2>3, <2>4 DEF FindManifest, Error
  <2>5. CASE ParseManifest(t)
    <3>1. manifest[call[t].key] \in ManifestFile
      BY <1>2 DEF IInv, TypeOK
    <3>2. CASE manifest[call[t].key] = "fieldless"
      BY <1>2, <2>1, <2>5, <3>2, NameAssumption DEF ParseManifest, BadManifest
    <3>3. CASE manifest[call[t].key] # "fieldless"
      BY <2>3, <2>5, <2>8, <3>1, <3>3, NameAssumption
         DEF ParseManifest, ManifestFile, BadManifest, Error
    <3> QED BY <3>2, <3>3
  <2>6. CASE FindEntry(t)
    BY <2>2, <2>3, <2>6 DEF FindEntry, Error, IInv, CallsFollowTheMap
  <2>7. CASE ReadEntry(t)
    <3> DEFINE file == entry[call[t].key][call[t].name]
           c == [call[t] EXCEPT !.at = "install", !.content = file]
    <3>1. file \in BadEntry \cup Script
      BY <1>2, <2>7 DEF IInv, TypeOK, CallsFollowTheMap, ReadEntry
    <3>2. CASE file \in {"absent", "unreadable"}
      BY <2>3, <2>7, <3>2 DEF ReadEntry, Error
    <3>3. CASE file \notin {"absent", "unreadable"}
      <4>1. c \in CallType
        BY <2>1, <3>1, <3>3 DEF CallType, BadEntry
      <4>2. call' = [call EXCEPT ![t] = c]
        BY <2>7, <3>3, <2>1 DEF ReadEntry
      <4>3. Making(c) /\ c.key = call[t].key /\ c.worker = None /\ c.at = "install"
        BY <1>2, <2>1 DEF Making, CallType
      <4> HIDE DEF c
      <4> QED BY <4>1, <4>2, <4>3
    <3> QED BY <3>2, <3>3
  <2> QED BY <2>4, <2>5, <2>6, <2>7
<1>4. TypeOK'
    BY <1>1, <1>3 DEF IInv, TypeOK
<1>5. \A s \in Thread : call'[s] = IF s = t THEN c ELSE call[s]
    BY <1>3 DEF IInv, TypeOK
<1>6. WorkersStayHome'
    BY <1>1, <1>3, <1>5 DEF IInv, WorkersStayHome
<1>7. CallsFollowTheMap'
    BY <1>1, <1>2, <1>3, <1>5 DEF IInv, CallsFollowTheMap, Making
<1> QED BY <1>1, <1>4, <1>6, <1>7
        DEF IInv, GoodWorkersAreCached, WorkersHaveScripts, ToldByCached

\* A request begins: it finds a worker, or begins to make one.
LEMMA HttpHandlerKeepsIInv ==
    ASSUME IInv, NEW t \in Thread, NEW k \in Key, HttpHandler(t, k)
    PROVE  IInv'
<1>1. /\ UNCHANGED <<manifest, entry, workers, worker, told, fault>>
      /\ amiss' \in [Thread -> BOOLEAN]
    BY DEF HttpHandler, IInv, TypeOK
<1>2. PICK c \in CallType :
          /\ call' = [call EXCEPT ![t] = c]
          /\ c.key = k /\ c.worker = workers[t][k]
          /\ c.at = IF workers[t][k] # None THEN "serve" ELSE "manifest"
  <2>1. workers[t][k] \in Worker \cup {None}
    BY DEF IInv, TypeOK
  <2> DEFINE found == [NoCall EXCEPT !.at = "serve", !.key = k, !.worker = workers[t][k]]
             making == [NoCall EXCEPT !.at = "manifest", !.key = k]
  <2>2. CASE workers[t][k] # None
    <3>1. call' = [call EXCEPT ![t] = found]
      BY <2>2 DEF HttpHandler
    <3>2. /\ found \in CallType
          /\ found.key = k /\ found.worker = workers[t][k] /\ found.at = "serve"
      BY <2>1 DEF NoCall, CallType
    <3> HIDE DEF found
    <3> QED BY <2>2, <3>1, <3>2
  <2>3. CASE workers[t][k] = None
    <3>1. call' = [call EXCEPT ![t] = making]
      BY <2>3 DEF HttpHandler
    <3>2. /\ making \in CallType
          /\ making.key = k /\ making.worker = None /\ making.at = "manifest"
      BY DEF NoCall, CallType
    <3> HIDE DEF making
    <3> QED BY <2>3, <3>1, <3>2
  <2> QED BY <2>2, <2>3
<1>3. TypeOK'
    BY <1>1, <1>2 DEF IInv, TypeOK
<1>4. \A s \in Thread : call'[s] = IF s = t THEN c ELSE call[s]
    BY <1>2 DEF IInv, TypeOK
<1>5. WorkersStayHome'
    BY <1>1, <1>2, <1>4 DEF IInv, WorkersStayHome
<1>6. CallsFollowTheMap'
    BY <1>1, <1>2, <1>4 DEF IInv, CallsFollowTheMap, WorkersStayHome, Making
<1> QED BY <1>1, <1>3, <1>5, <1>6
        DEF IInv, GoodWorkersAreCached, WorkersHaveScripts, ToldByCached

\* The worker is made.
LEMMA InstallWorkerKeepsIInv ==
    ASSUME IInv, NEW t \in Thread, NEW w \in Worker, InstallWorker(t, w)
    PROVE  IInv'
<1> DEFINE c == call[t]
           error == WorkerError(c)
           new == [live |-> TRUE, thread |-> t, key |-> c.key, error |-> error,
                   script |-> IF error = None THEN c.content ELSE None]
<1>1. /\ c.at = "install" /\ ~worker[w].live
      /\ c \in CallType /\ c.key \in Key /\ c.worker = None
      /\ workers[t][c.key] = None
    BY DEF InstallWorker, IInv, TypeOK, CallsFollowTheMap, Making
<1>2. UNCHANGED <<manifest, entry, told, amiss, fault>>
    BY DEF InstallWorker
<1>3. /\ error \in Error \cup {None}
      /\ error = None => c.content \in Script
    BY <1>1, NoneAssumption DEF WorkerError, CallType, Error
<1>4. CASE NotFound(error)
  <2>1. Goes(t, "serve") /\ UNCHANGED <<worker, workers>>
    BY <1>4 DEF InstallWorker
  <2>2. PICK d \in CallType :
            /\ call' = [call EXCEPT ![t] = d]
            /\ d.at = "serve" /\ d.key = c.key /\ d.worker = None
    <3> DEFINE d == [c EXCEPT !.at = "serve"]
    <3>1. call' = [call EXCEPT ![t] = d]
      BY <2>1 DEF Goes, IInv, TypeOK
    <3>2. d \in CallType /\ d.at = "serve" /\ d.key = c.key /\ d.worker = None
      BY <1>1 DEF CallType
    <3> HIDE DEF d
    <3> QED BY <3>1, <3>2
  <2>3. \A s \in Thread : call'[s] = IF s = t THEN d ELSE call[s]
    BY <2>2 DEF IInv, TypeOK
  <2>4. TypeOK'
    BY <1>2, <2>1, <2>2 DEF IInv, TypeOK
  <2>5. WorkersStayHome' /\ CallsFollowTheMap'
    BY <1>1, <2>1, <2>2, <2>3 DEF IInv, WorkersStayHome, CallsFollowTheMap, Making
  <2> QED BY <1>2, <2>1, <2>4, <2>5
          DEF IInv, GoodWorkersAreCached, WorkersHaveScripts, ToldByCached
<1>5. CASE ~NotFound(error)
  <2>1. /\ worker' = [worker EXCEPT ![w] = new]
        /\ call' = [call EXCEPT ![t].at = "serve", ![t].worker = w]
        /\ workers' = IF MayCache(error)
                      THEN [workers EXCEPT ![t][c.key] = w] ELSE workers
    BY <1>5 DEF InstallWorker
  <2>2. /\ new \in WorkerType
        /\ new.live /\ new.thread = t /\ new.key = c.key /\ new.error = error
        /\ error = None => new.script \in Script
    BY <1>1, <1>3 DEF WorkerType
  <2>3. PICK d \in CallType :
            /\ call' = [call EXCEPT ![t] = d]
            /\ d.at = "serve" /\ d.key = c.key /\ d.worker = w
    <3> DEFINE d == [c EXCEPT !.at = "serve", !.worker = w]
    <3>1. call' = [call EXCEPT ![t] = d]
      BY <2>1 DEF IInv, TypeOK
    <3>2. d \in CallType /\ d.at = "serve" /\ d.key = c.key /\ d.worker = w
      BY <1>1 DEF CallType
    <3> HIDE DEF d
    <3> QED BY <3>1, <3>2
  <2>4. \A s \in Thread : call'[s] = IF s = t THEN d ELSE call[s]
    BY <2>3 DEF IInv, TypeOK
  <2> HIDE DEF new, error
  <2>5. \A v \in Worker : worker'[v] = IF v = w THEN new ELSE worker[v]
    BY <2>1 DEF IInv, TypeOK
  <2>6. \A s \in Thread, k \in Key :
            workers'[s][k] = IF s = t /\ k = c.key /\ error = None
                             THEN w ELSE workers[s][k]
    BY <1>1, <2>1 DEF IInv, TypeOK, MayCache
  <2>7. \A s \in Thread, k \in Key : workers[s][k] # w
    BY <1>1, NoneAssumption DEF IInv, WorkersStayHome
  <2>8. \A s \in Thread : call[s].worker # w
    BY <1>1, NoneAssumption DEF IInv, WorkersStayHome
  <2>9. \A v \in Worker : v # None
    BY NoneAssumption
  <2>10. TypeOK'
    <3>1. workers' \in [Thread -> [Key -> Worker \cup {None}]]
      BY <1>1, <2>1 DEF IInv, TypeOK
    <3>2. worker' \in [Worker -> WorkerType]
      BY <2>1, <2>2 DEF IInv, TypeOK
    <3>3. call' \in [Thread -> CallType]
      BY <2>3 DEF IInv, TypeOK
    <3> QED BY <1>2, <3>1, <3>2, <3>3 DEF IInv, TypeOK
  <2>11. \A s \in Thread :
            /\ \A k \in Key : workers[s][k] \in Worker \cup {None}
            /\ call[s] \in CallType
    BY DEF IInv, TypeOK
  <2>12. WorkersStayHome'
    <3>1. ASSUME NEW s \in Thread, NEW k \in Key, workers'[s][k] # None
          PROVE  LET v == workers'[s][k] IN
                    /\ worker'[v].live /\ worker'[v].thread = s
                    /\ worker'[v].key = k /\ worker'[v].error = None
      <4>1. CASE s = t /\ k = c.key /\ error = None
        BY <2>2, <2>5, <2>6, <4>1
      <4>2. CASE ~(s = t /\ k = c.key /\ error = None)
        BY <2>5, <2>6, <2>7, <2>11, <3>1, <4>2 DEF IInv, WorkersStayHome
      <4> QED BY <4>1, <4>2
    <3>2. ASSUME NEW s \in Thread, call'[s].worker # None
          PROVE  LET v == call'[s].worker IN
                    /\ worker'[v].live /\ worker'[v].thread = s
                    /\ worker'[v].key = call'[s].key
      <4>1. CASE s = t
        BY <2>2, <2>3, <2>4, <2>5, <4>1
      <4>2. CASE s # t
        <5>1. call[s].worker \in Worker
          BY <2>4, <2>11, <3>2, <4>2 DEF CallType
        <5> QED BY <2>4, <2>5, <2>8, <3>2, <4>2, <5>1 DEF IInv, WorkersStayHome
      <4> QED BY <4>1, <4>2
    <3> QED BY <3>1, <3>2 DEF WorkersStayHome
  <2>13. GoodWorkersAreCached' /\ WorkersHaveScripts'
    <3>1. ASSUME NEW v \in Worker, worker'[v].live
          PROVE  /\ worker'[v].thread \in Thread /\ worker'[v].key \in Key
                 /\ worker'[v].error = None =>
                       /\ worker'[v].script \in Script
                       /\ workers'[worker'[v].thread][worker'[v].key] = v
      <4>1. CASE v = w
        BY <1>1, <2>2, <2>5, <2>6, <4>1
      <4>2. CASE v # w
        BY <1>1, <2>5, <2>6, <2>9, <3>1, <4>2
           DEF IInv, GoodWorkersAreCached, WorkersHaveScripts
      <4> QED BY <4>1, <4>2
    <3> QED BY <3>1 DEF GoodWorkersAreCached, WorkersHaveScripts
  <2>14. CallsFollowTheMap'
    <3> SUFFICES ASSUME NEW s \in Thread
                 PROVE  LET e == call'[s] IN
                   /\ e.at # "idle" => e.key \in Key
                   /\ e.at \in {"entry", "read"} => e.name \in Name
                   /\ e.worker # None => e.at = "serve"
                   /\ Making(e) => workers'[s][e.key] = None
                   /\ e.at = "serve" =>
                        IF e.worker = None THEN workers'[s][e.key] = None
                        ELSE worker'[e.worker].error = None \/ workers'[s][e.key] = None
      BY DEF CallsFollowTheMap, Making
    <3>1. CASE s = t
      BY <1>1, <2>2, <2>3, <2>4, <2>5, <2>6, <2>9, <3>1 DEF Making
    <3>2. CASE s # t
      <4>1. call'[s] = call[s] /\ call[s].worker \in Worker \cup {None}
        BY <2>4, <2>11, <3>2 DEF CallType
      <4>2. \A k \in Key : workers'[s][k] = workers[s][k]
        BY <2>6, <3>2
      <4>3. call[s].worker # None => worker'[call[s].worker] = worker[call[s].worker]
        BY <2>5, <2>8, <4>1
      <4> QED BY <4>1, <4>2, <4>3 DEF IInv, CallsFollowTheMap, Making
    <3> QED BY <3>1, <3>2
  <2>15. ToldByCached'
    BY <1>1, <1>2, <2>5, <2>6, <2>7, <2>11 DEF IInv, ToldByCached
  <2> QED BY <2>10, <2>12, <2>13, <2>14, <2>15 DEF IInv
<1> QED BY <1>4, <1>5

\* The request is answered.
LEMMA ServeKeepsIInv ==
    ASSUME IInv, NEW t \in Thread, Serve(t)
    PROVE  IInv' /\ \A s \in Thread, k \in Key :
                        told[s][k] \in Script => told'[s][k] = told[s][k]
<1> DEFINE c == call[t]
           w == c.worker
           answer == Answer(w)
<1>1. /\ c.at = "serve" /\ c.key \in Key /\ w \in Worker \cup {None}
      /\ told' = [told EXCEPT ![t][c.key] = answer]
      /\ call' = [call EXCEPT ![t] = NoCall]
      /\ amiss' \in [Thread -> BOOLEAN]
      /\ UNCHANGED <<manifest, entry, workers, worker, fault>>
    BY DEF Serve, IInv, TypeOK, CallType, CallsFollowTheMap
<1>2. /\ answer \in Script \cup {"not_found", "server_error"}
      /\ told[t][c.key] \in Script => answer = told[t][c.key]
      /\ answer \in Script =>
            workers[t][c.key] # None /\ worker[workers[t][c.key]].script = answer
  <2>1. told[t][c.key] \in Script =>
            workers[t][c.key] # None /\ worker[workers[t][c.key]].script = told[t][c.key]
    BY <1>1 DEF IInv, ToldByCached
  <2>2. CASE w # None /\ worker[w].error = None
    <3>1. w = workers[t][c.key] /\ answer = worker[w].script /\ answer \in Script
      BY <1>1, <2>2
         DEF IInv, Answer, WorkersStayHome, GoodWorkersAreCached, WorkersHaveScripts
    <3> QED BY <2>1, <2>2, <3>1
  <2>3. CASE ~(w # None /\ worker[w].error = None)
    <3>1. workers[t][c.key] = None
      BY <1>1, <2>3 DEF IInv, CallsFollowTheMap
    <3>2. answer \in {"not_found", "server_error"} /\ answer \notin Script
      BY <2>3, ScriptAssumption DEF Answer
    <3> QED BY <2>1, <3>1, <3>2
  <2> QED BY <2>2, <2>3
<1> HIDE DEF answer
<1>3. \A s \in Thread, k \in Key :
          told'[s][k] = IF s = t /\ k = c.key THEN answer ELSE told[s][k]
    BY <1>1 DEF IInv, TypeOK
<1>4. \A s \in Thread : call'[s] = IF s = t THEN NoCall ELSE call[s]
    BY <1>1 DEF IInv, TypeOK
<1>5. TypeOK'
  <2>1. NoCall \in CallType
    BY DEF NoCall, CallType
  <2>2. told' \in [Thread -> [Key -> Script \cup {"not_found", "server_error", None}]]
    BY <1>1, <1>2 DEF IInv, TypeOK
  <2> QED BY <1>1, <2>1, <2>2 DEF IInv, TypeOK
<1>6. WorkersStayHome' /\ CallsFollowTheMap'
    BY <1>1, <1>4 DEF IInv, WorkersStayHome, CallsFollowTheMap, NoCall, Making
<1>7. ToldByCached'
    BY <1>1, <1>2, <1>3 DEF IInv, ToldByCached
<1>8. \A s \in Thread, k \in Key :
          told[s][k] \in Script => told'[s][k] = told[s][k]
    BY <1>2, <1>3
<1> QED BY <1>1, <1>5, <1>6, <1>7, <1>8
        DEF IInv, GoodWorkersAreCached, WorkersHaveScripts

\* Every step of a thread, and every edit of the files, keeps the invariant.
LEMMA NextKeepsIInv ==
    ASSUME IInv, [Next]_vars
    PROVE  IInv' /\ \A t \in Thread, k \in Key :
                        told[t][k] \in Script => told'[t][k] = told[t][k]
<1>1. CASE UNCHANGED vars
    BY <1>1 DEF vars, IInv, TypeOK, WorkersStayHome, GoodWorkersAreCached,
                CallsFollowTheMap, Making, WorkersHaveScripts, ToldByCached
<1>2. CASE \/ \E k \in Key, m \in ManifestFile : EditManifest(k, m)
           \/ \E k \in Key, n \in Name, e \in BadEntry \cup Script : EditEntry(k, n, e)
  <2>1. told' = told
    BY <1>2 DEF EditManifest, EditEntry
  <2> QED BY <1>2, <2>1, EditKeepsIInv
<1>3. ASSUME NEW t \in Thread, NEW k \in Key, HttpHandler(t, k)
      PROVE  IInv' /\ told' = told
    BY <1>3, HttpHandlerKeepsIInv DEF HttpHandler
<1>4. ASSUME NEW t \in Thread,
             FindManifest(t) \/ ParseManifest(t) \/ FindEntry(t) \/ ReadEntry(t)
      PROVE  IInv' /\ told' = told
    BY <1>4, ReadManifestKeepsIInv
       DEF FindManifest, ParseManifest, FindEntry, ReadEntry
<1>5. ASSUME NEW t \in Thread, NEW w \in Worker, InstallWorker(t, w)
      PROVE  IInv' /\ told' = told
    BY <1>5, InstallWorkerKeepsIInv DEF InstallWorker
<1> QED BY <1>1, <1>2, <1>3, <1>4, <1>5, ServeKeepsIInv DEF Next, Step

-----------------------------------------------------------------------------
(* ErrorsAreFresh.  Of a call that failed, or is about to, the files were  *)
(* disturbed at some moment since it began; as long as it has not failed,  *)
(* that moment is at the latest the one at which it looks at them: what it *)
(* finds under a name that the manifest still gives is not in order, and   *)
(* if the manifest gives another name that is a disturbance too.           *)

Failed(c) == c.at = "install" /\ c.content \notin Script

ErrorsSeen ==
    \A t \in Thread : LET c == call[t] IN
        /\ Making(c) /\ c.at # "install" => c.error = None /\ c.content = None
        /\ c.at = "install" => (c.error # None => c.content = None)
        /\ c.at # "idle" /\ Disturbed(c) => amiss[t]
        /\ Failed(c) => amiss[t]

FInv == IInv /\ ErrorsSeen /\ ErrorsAreFresh

\* No call is under way, so nothing was told.
LEMMA InitFInv == Init => FInv
<1> SUFFICES ASSUME Init PROVE FInv
    OBVIOUS
<1>1. \A t \in Thread : call[t].at = "idle"
    BY DEF Init, NoCall
<1> QED BY <1>1, InitIInv DEF FInv, ErrorsSeen, ErrorsAreFresh, Making, Failed

\* Edits: a call under way remembers the wrong ones.
LEMMA EditKeepsErrorsSeen ==
    ASSUME FInv,
           \/ \E k \in Key, m \in ManifestFile : EditManifest(k, m)
           \/ \E k \in Key, n \in Name, e \in BadEntry \cup Script : EditEntry(k, n, e)
    PROVE  ErrorsSeen' /\ ErrorsAreFresh'
<1>1. PICK k \in Key :
          /\ Remember(k)
          /\ \A c \in CallType : c.key \in Key \ {k} => (Disturbed(c)' <=> Disturbed(c))
          /\ UNCHANGED <<workers, worker, call>>
    BY DEF EditManifest, EditEntry, InOrder, Disturbed, FInv, IInv, TypeOK
<1>2. \A t \in Thread : amiss'[t] <=> (amiss[t] \/ (call[t].key = k /\ Disturbed(call[t])'))
    BY <1>1 DEF Remember
<1>3. \A t \in Thread : call[t].at # "idle" => call[t].key \in Key
    BY DEF FInv, IInv, CallsFollowTheMap
<1>4. ErrorsAreFresh'
    BY <1>1, <1>2 DEF FInv, ErrorsAreFresh
<1>5. \A t \in Thread : call[t].at # "idle" /\ Disturbed(call[t])' => amiss'[t]
    BY <1>1, <1>2, <1>3 DEF FInv, IInv, TypeOK, ErrorsSeen
<1>6. ErrorsSeen'
  <2> SUFFICES ASSUME NEW t \in Thread
               PROVE  LET c == call[t] IN
                 /\ Making(c) /\ c.at # "install" => c.error = None /\ c.content = None
                 /\ c.at = "install" => (c.error # None => c.content = None)
                 /\ c.at # "idle" /\ Disturbed(c)' => amiss'[t]
                 /\ Failed(c) => amiss'[t]
    BY <1>1 DEF ErrorsSeen, Making, Failed
  <2> QED BY <1>2, <1>5 DEF FInv, ErrorsSeen
<1> QED BY <1>4, <1>6

\* What a step of the thread t has to do for its own call.
LEMMA OneCallSeen ==
    ASSUME FInv, NEW t \in Thread, NEW c \in CallType,
           call' = [call EXCEPT ![t] = c],
           UNCHANGED <<manifest, entry>>,
           \A s \in Thread \ {t} : amiss'[s] = amiss[s],
           \A w \in Worker : worker[w].live => worker'[w] = worker[w],
           Making(c) /\ c.at # "install" => c.error = None /\ c.content = None,
           c.at = "install" => (c.error # None => c.content = None),
           c.at # "idle" /\ Disturbed(c) => amiss'[t],
           Failed(c) => amiss'[t],
           c.at = "serve" =>
               (c.worker = None \/ worker'[c.worker].error # None => amiss'[t])
    PROVE  ErrorsSeen' /\ ErrorsAreFresh'
<1>1. \A s \in Thread : call'[s] = IF s = t THEN c ELSE call[s]
    BY DEF FInv, IInv, TypeOK
<1>2. \A s \in Thread : call[s].worker # None =>
          worker'[call[s].worker] = worker[call[s].worker]
  <2>1. \A s \in Thread : call[s].worker \in Worker \cup {None}
    BY DEF FInv, IInv, TypeOK, CallType
  <2> QED BY <2>1 DEF FInv, IInv, WorkersStayHome
<1>3. \A d \in CallType : Disturbed(d)' <=> Disturbed(d)
    BY DEF InOrder, Disturbed
<1>4. ErrorsSeen'
    BY <1>1, <1>3 DEF FInv, IInv, TypeOK, ErrorsSeen, Making, Failed
<1>5. ErrorsAreFresh'
    BY <1>1, <1>2 DEF FInv, ErrorsAreFresh
<1> QED BY <1>4, <1>5

\* A step of ReadManifest: a look at wrong files is remembered already.
LEMMA ReadManifestKeepsErrorsSeen ==
    ASSUME FInv, NEW t \in Thread,
           FindManifest(t) \/ ParseManifest(t) \/ FindEntry(t) \/ ReadEntry(t)
    PROVE  ErrorsSeen' /\ ErrorsAreFresh'
<1> DEFINE c == call[t]
           Gone(at) == [c EXCEPT !.at = at]
           FailedWith(e) == [c EXCEPT !.at = "install", !.error = e]
           Taken(s) == [c EXCEPT !.at = "install", !.content = s]
<1>1. /\ c \in CallType /\ c.key \in Key
      /\ c.error = None /\ c.content = None
      /\ Disturbed(c) => amiss[t]
      /\ call = [call EXCEPT ![t] = c]
    BY DEF FInv, IInv, TypeOK, CallType, CallsFollowTheMap, ErrorsSeen, Making,
           FindManifest, ParseManifest, FindEntry, ReadEntry
<1>2. UNCHANGED <<manifest, entry, worker, amiss>>
    BY DEF FindManifest, ParseManifest, FindEntry, ReadEntry
<1>3. ASSUME NEW at \in {"parse", "read"}, Goes(t, at)
      PROVE  ErrorsSeen' /\ ErrorsAreFresh'
  <2> DEFINE d == Gone(at)
  <2>1. call' = [call EXCEPT ![t] = d]
    BY <1>1, <1>3 DEF Goes
  <2>2. /\ d \in CallType /\ d.at = at /\ d.key = c.key /\ d.name = c.name
        /\ d.error = None /\ d.content = None
    BY <1>1 DEF CallType
  <2>3. Disturbed(d) => amiss[t]
    BY <1>1, <2>2 DEF Disturbed
  <2> HIDE DEF d
  <2> QED BY <1>1, <1>2, <2>1, <2>2, <2>3, OneCallSeen DEF Failed
<1>4. ASSUME NEW e \in Error \cup {None}, Fails(t, e), Disturbed(c)
      PROVE  ErrorsSeen' /\ ErrorsAreFresh'
  <2> DEFINE d == FailedWith(e)
  <2>1. call' = [call EXCEPT ![t] = d]
    BY <1>1, <1>4 DEF Fails
  <2>2. /\ d \in CallType /\ d.at = "install" /\ d.key = c.key
        /\ d.content = None
    BY <1>1 DEF CallType
  <2> HIDE DEF d
  <2> QED BY <1>1, <1>2, <1>4, <2>1, <2>2, OneCallSeen
<1>5. CASE FindManifest(t)
    BY <1>3, <1>4, <1>5, NameAssumption
       DEF FindManifest, Disturbed, InOrder, BadManifest, Error
<1>6. CASE ParseManifest(t)
  <2>1. manifest[c.key] \in ManifestFile
    BY <1>1 DEF FInv, IInv, TypeOK
  <2>2. CASE manifest[c.key] = "fieldless"
    <3>1. call' = call /\ c.at = "parse"
      BY <1>6, <2>2, NameAssumption DEF ParseManifest, BadManifest
    <3>2. call' = [call EXCEPT ![t] = c]
      BY <1>1, <3>1
    <3> HIDE DEF c
    <3> QED BY <1>1, <1>2, <3>1, <3>2, OneCallSeen DEF Failed
  <2>3. CASE manifest[c.key] \in BadManifest \ {"fieldless"}
    BY <1>4, <1>6, <2>3, NameAssumption
       DEF ParseManifest, BadManifest, Error, InOrder, Disturbed
  <2>4. CASE manifest[c.key] \in Name
    <3> DEFINE d == [c EXCEPT !.at = "entry", !.name = manifest[c.key]]
    <3>1. call' = [call EXCEPT ![t] = d]
      BY <1>1, <1>6, <2>4, NameAssumption DEF ParseManifest, BadManifest
    <3>2. /\ d \in CallType /\ d.at = "entry" /\ d.key = c.key
          /\ d.name = manifest[c.key] /\ d.error = None /\ d.content = None
      BY <1>1, <2>4 DEF CallType
    <3>3. Disturbed(d) => amiss[t]
      BY <1>1, <3>2 DEF Disturbed
    <3> HIDE DEF d
    <3> QED BY <1>1, <1>2, <3>1, <3>2, <3>3, OneCallSeen DEF Failed
  <2> QED BY <2>1, <2>2, <2>3, <2>4 DEF ManifestFile
<1>9. c.at \in {"entry", "read"} => c.name \in Name /\ c.name # None
    BY NoneAssumption DEF FInv, IInv, CallsFollowTheMap
<1>7. CASE FindEntry(t)
    BY <1>3, <1>4, <1>7, <1>9, ScriptAssumption
       DEF FindEntry, Disturbed, InOrder, BadEntry, Error
<1>8. CASE ReadEntry(t)
  <2> DEFINE file == entry[c.key][c.name]
             d == Taken(file)
  <2>1. file \in BadEntry \cup Script /\ c.name \in Name /\ c.name # None
    BY <1>1, <1>8, <1>9 DEF FInv, IInv, TypeOK, ReadEntry
  <2>2. CASE file \in {"absent", "unreadable"}
    BY <1>4, <1>8, <2>1, <2>2, ScriptAssumption
       DEF ReadEntry, Disturbed, InOrder, BadEntry, Error
  <2>3. CASE file \notin {"absent", "unreadable"}
    <3>1. /\ d \in CallType /\ d.at = "install" /\ d.key = c.key
          /\ d.name = c.name /\ d.error = None /\ d.content = file
      BY <1>1, <2>1, <2>3 DEF CallType, BadEntry
    <3>2. call' = [call EXCEPT ![t] = d]
      BY <1>1, <1>8, <2>3 DEF ReadEntry
    <3>3. Failed(d) => amiss'[t]
      BY <1>1, <1>2, <2>1, <3>1 DEF Failed, InOrder, Disturbed
    <3>4. Disturbed(d) => amiss'[t]
      BY <1>1, <1>2, <3>1 DEF Disturbed
    <3> HIDE DEF d
    <3> QED BY <1>1, <1>2, <3>1, <3>2, <3>3, <3>4, OneCallSeen
  <2> QED BY <2>2, <2>3
<1> QED BY <1>5, <1>6, <1>7, <1>8

\* A request begins: what is cached has no error.
LEMMA HttpHandlerKeepsErrorsSeen ==
    ASSUME FInv, NEW t \in Thread, NEW k \in Key, HttpHandler(t, k)
    PROVE  ErrorsSeen' /\ ErrorsAreFresh'
<1>1. /\ UNCHANGED <<manifest, entry, worker>>
      /\ \A s \in Thread : amiss'[s] = IF s = t THEN ~InOrder(k) ELSE amiss[s]
      /\ workers[t][k] \in Worker \cup {None}
    BY DEF HttpHandler, FInv, IInv, TypeOK
<1> DEFINE found == [NoCall EXCEPT !.at = "serve", !.key = k, !.worker = workers[t][k]]
           making == [NoCall EXCEPT !.at = "manifest", !.key = k]
<1>2. CASE workers[t][k] # None
  <2>1. call' = [call EXCEPT ![t] = found]
    BY <1>2 DEF HttpHandler
  <2>2. /\ found \in CallType /\ found.at = "serve" /\ found.key = k
        /\ found.worker = workers[t][k] /\ found.name = None
    BY <1>1 DEF NoCall, CallType
  <2>3. worker[workers[t][k]].error = None
    BY <1>2 DEF FInv, IInv, WorkersStayHome
  <2> HIDE DEF found
  <2> QED BY <1>1, <1>2, <2>1, <2>2, <2>3, OneCallSeen DEF Making, Failed, Disturbed
<1>3. CASE workers[t][k] = None
  <2>1. call' = [call EXCEPT ![t] = making]
    BY <1>3 DEF HttpHandler
  <2>2. /\ making \in CallType /\ making.at = "manifest" /\ making.key = k
        /\ making.name = None /\ making.error = None /\ making.content = None
    BY DEF NoCall, CallType
  <2> HIDE DEF making
  <2> QED BY <1>1, <2>1, <2>2, OneCallSeen DEF Failed, Disturbed
<1> QED BY <1>2, <1>3

\* The worker is made: one with an error comes from a call that failed.
LEMMA InstallWorkerKeepsErrorsSeen ==
    ASSUME FInv, NEW t \in Thread, NEW w \in Worker, InstallWorker(t, w)
    PROVE  ErrorsSeen' /\ ErrorsAreFresh'
<1> DEFINE c == call[t]
           error == WorkerError(c)
           new == [live |-> TRUE, thread |-> t, key |-> c.key, error |-> error,
                   script |-> IF error = None THEN c.content ELSE None]
<1>1. /\ c.at = "install" /\ ~worker[w].live /\ c \in CallType
      /\ Disturbed(c) => amiss[t]
      /\ c.worker = None
    BY DEF InstallWorker, FInv, IInv, TypeOK, CallsFollowTheMap, Making, ErrorsSeen
<1>2. UNCHANGED <<manifest, entry, amiss>>
    BY DEF InstallWorker
<1>3. error # None => amiss[t]
  <2>1. Failed(c) => amiss[t]
    BY DEF FInv, ErrorsSeen
  <2>2. error # None => c.content \notin Script
    BY <1>1, NoneAssumption, ScriptAssumption
       DEF WorkerError, FInv, ErrorsSeen, BadEntry
  <2> QED BY <1>1, <2>1, <2>2 DEF Failed
<1>4. CASE NotFound(error)
  <2> DEFINE d == [c EXCEPT !.at = "serve"]
  <2>1. call' = [call EXCEPT ![t] = d] /\ worker' = worker
    BY <1>4 DEF InstallWorker, Goes, FInv, IInv, TypeOK
  <2>2. d \in CallType /\ d.at = "serve" /\ d.key = c.key /\ d.name = c.name
    BY <1>1 DEF CallType
  <2>3. amiss[t]
    BY <1>3, <1>4, NoneAssumption DEF NotFound, Error
  <2> HIDE DEF d
  <2> QED BY <1>2, <2>1, <2>2, <2>3, OneCallSeen DEF Making, Failed
<1>5. CASE ~NotFound(error)
  <2> DEFINE d == [c EXCEPT !.at = "serve", !.worker = w]
  <2>1. /\ call' = [call EXCEPT ![t] = d]
        /\ worker' = [worker EXCEPT ![w] = new]
    BY <1>5 DEF InstallWorker, FInv, IInv, TypeOK
  <2>2. /\ d \in CallType /\ d.at = "serve" /\ d.key = c.key /\ d.name = c.name
        /\ d.worker = w
    BY <1>1 DEF CallType
  <2>3. worker'[w].error = error
    BY <2>1 DEF FInv, IInv, TypeOK
  <2>4. \A v \in Worker : worker[v].live => worker'[v] = worker[v]
    BY <1>1, <2>1 DEF FInv, IInv, TypeOK
  <2>5. w # None
    BY NoneAssumption
  <2> HIDE DEF d, error, new
  <2> QED BY <1>1, <1>2, <1>3, <2>1, <2>2, <2>3, <2>4, <2>5, OneCallSeen
          DEF Making, Failed, Disturbed
<1> QED BY <1>4, <1>5

\* Every step keeps what the error and the content of a call say of its files.
LEMMA NextKeepsFInv == FInv /\ [Next]_vars => FInv'
<1> SUFFICES ASSUME FInv, [Next]_vars PROVE ErrorsSeen' /\ ErrorsAreFresh'
    BY NextKeepsIInv DEF FInv
<1>1. CASE UNCHANGED vars
    BY <1>1 DEF vars, FInv, ErrorsSeen, ErrorsAreFresh, Making, Failed, InOrder,
                Disturbed
<1>2. ASSUME NEW t \in Thread, Serve(t)
      PROVE  ErrorsSeen' /\ ErrorsAreFresh'
  <2>1. /\ call' = [call EXCEPT ![t] = NoCall]
        /\ UNCHANGED <<manifest, entry, worker>>
        /\ \A s \in Thread \ {t} : amiss'[s] = amiss[s]
    BY <1>2 DEF Serve, FInv, IInv, TypeOK
  <2>2. NoCall \in CallType /\ NoCall.at = "idle"
    BY DEF NoCall, CallType
  <2> QED BY <2>1, <2>2, OneCallSeen DEF Making, Failed
<1> QED BY <1>1, <1>2, EditKeepsErrorsSeen, ReadManifestKeepsErrorsSeen,
           HttpHandlerKeepsErrorsSeen, InstallWorkerKeepsErrorsSeen
        DEF Next, Step

\* The strengthened invariant holds for any number of threads, keys, workers
\* and versions of scripts.
THEOREM Invariance == Spec => []IInv
<1>1. IInv /\ [Next]_vars => IInv'
    BY NextKeepsIInv
<1> QED BY InitIInv, <1>1, PTL DEF Spec

\* Every variable has its type.
THEOREM TypeCorrect == Spec => []TypeOK
<1>1. IInv => TypeOK
    BY DEF IInv
<1> QED BY Invariance, <1>1, PTL

\* A worker, and with it its isolate, is used by one thread, for one key.
THEOREM WorkersNeverMove == Spec => []WorkersStayHome
<1>1. IInv => WorkersStayHome
    BY DEF IInv
<1> QED BY Invariance, <1>1, PTL

\* No worker that can serve is lost or replaced (find_worker, install_worker).
THEOREM GoodWorkersAreNeverLost == Spec => []GoodWorkersAreCached
<1>1. IInv => GoodWorkersAreCached
    BY DEF IInv
<1> QED BY Invariance, <1>1, PTL

\* What a thread has answered by a script it answers for ever, over every
\* interleaving of requests and edits.
THEOREM AnswersNeverChange == Spec => AnswersStick
<1>1. IInv /\ [Next]_vars =>
          [\A t \in Thread, k \in Key :
              told[t][k] \in Script => told'[t][k] = told[t][k]]_vars
    BY NextKeepsIInv
<1> QED BY Invariance, <1>1, PTL DEF Spec, AnswersStick

\* No answer of a request is an error unless, at some moment of the request, the
\* files of its key were out of order or the manifest was pointed away from the
\* entry the request had read in it, for any number of threads, keys, entries and
\* edits (ReadManifest, install_worker).
THEOREM ErrorsComeFromFiles == Spec => []ErrorsAreFresh
<1>1. FInv => ErrorsAreFresh
    BY DEF FInv
<1> QED BY InitFInv, NextKeepsFInv, <1>1, PTL DEF Spec
=============================================================================
