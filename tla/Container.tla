----------------------------- MODULE Container ------------------------------
(***************************************************************************)
(* From the path of a request to the worker that serves it.  The server    *)
(* has several threads, each with an event loop and, thread-local, a       *)
(* Container: the map from keys to workers.  A worker holds a V8 isolate,  *)
(* which only its own thread may enter.                                    *)
(*                                                                         *)
(* A key that is not in the map is installed: its manifest.json is looked  *)
(* up and read, and then the entry file of the name it gave, one file      *)
(* operation after the other, while other threads do the same and somebody *)
(* edits the files, or points the manifest to another entry.               *)
(* Nothing but the files is shared by the threads.                         *)
(***************************************************************************)
CONSTANTS Thread,       \* threads of the HTTP server
          Key,          \* keys of workers: the path of a request
          Name,         \* names of entry files in the directory of a key
          Worker,       \* Worker objects
          Script,       \* contents of a script that compiles and has a handler
          None          \* nullptr

\* What may be in the place of manifest.json: nothing, a file that is no JSON,
\* a JSON without the two fields, one of an unknown runtime, or one of js_v8,
\* given by the name of the entry in it.
BadManifest == {"absent", "broken", "fieldless", "unknown"}
ManifestFile == BadManifest \cup Name

\* What may be in the place of an entry: nothing, something that cannot be
\* opened, a script that fails to load, or a good one.
BadEntry == {"absent", "unreadable", "broken"}

\* The error codes: which of the others it is only changes the text of the 500.
Error == {"manifest_not_found", "other"}

ASSUME NoneAssumption == None \notin Worker \cup Script \cup Error \cup Name
ASSUME NameAssumption == Name \cap BadManifest = {}
ASSUME ScriptAssumption ==
    Script \cap (BadEntry \cup {"not_found", "server_error"}) = {}

VARIABLES
    manifest,   \* the manifest file of each key
    entry,      \* the script files of each key
    workers,    \* workers_ of each thread's container
    worker,     \* the Worker objects
    call,       \* where each thread is in http_handler
    told,       \* the last answer of each thread for each key
    amiss,      \* history: whether the files were ever Disturbed during the call
    fault       \* an exception nobody catches ended the process

vars == <<manifest, entry, workers, worker, call, told, amiss, fault>>

\* A worker: its thread and key, error_code_, and the script it compiled.
WorkerType ==
    [live : BOOLEAN,
     thread : Thread \cup {None},
     key : Key \cup {None},
     error : Error \cup {None},
     script : Script \cup {None}]

NoWorker ==
    [live |-> FALSE, thread |-> None, key |-> None, error |-> None, script |-> None]

\* A thread in http_handler: the key, what ReadManifest found so far, the name
\* of the entry among it, and the worker once there is one.
CallType ==
    [at : {"idle", "manifest", "parse", "entry", "read", "install", "serve"},
     key : Key \cup {None},
     name : Name \cup {None},
     error : Error \cup {None},
     content : Script \cup {"broken", None},
     worker : Worker \cup {None}]

NoCall ==
    [at |-> "idle", key |-> None, name |-> None, error |-> None,
     content |-> None, worker |-> None]

\* A key can be served: its manifest is one for js_v8 and names a script that
\* loads.
InOrder(k) == manifest[k] \in Name /\ entry[k][manifest[k]] \in Script

\* The files are no good for a call: they are out of order, or the manifest
\* names another entry than the one the call has read in it.
Disturbed(c) == ~InOrder(c.key) \/ (c.name # None /\ manifest[c.key] # c.name)

Init ==
    /\ manifest \in [Key -> ManifestFile]
    /\ entry \in [Key -> [Name -> BadEntry \cup Script]]
    /\ workers = [t \in Thread |-> [k \in Key |-> None]]
    /\ worker = [w \in Worker |-> NoWorker]
    /\ call = [t \in Thread |-> NoCall]
    /\ told = [t \in Thread |-> [k \in Key |-> None]]
    /\ amiss = [t \in Thread |-> FALSE]
    /\ fault = FALSE

-----------------------------------------------------------------------------
\* What the calls under way remember of an edit of the files of k.
Remember(k) ==
    amiss' = [t \in Thread |-> amiss[t] \/ (call[t].key = k /\ Disturbed(call[t])')]

\* Somebody edits one of the files.
EditManifest(k, m) ==
    /\ manifest' = [manifest EXCEPT ![k] = m]
    /\ UNCHANGED <<entry, workers, worker, call, told, fault>>
    /\ Remember(k)

EditEntry(k, n, e) ==
    /\ entry' = [entry EXCEPT ![k][n] = e]
    /\ UNCHANGED <<manifest, workers, worker, call, told, fault>>
    /\ Remember(k)

Goes(t, at) == call' = [call EXCEPT ![t].at = at]

\* ReadManifest returns with an error.
Fails(t, error) == call' = [call EXCEPT ![t].at = "install", ![t].error = error]

\* http_handler and find_worker: a cached worker serves, whatever the files
\* are now; another key is installed.
HttpHandler(t, k) ==
    /\ call[t].at = "idle"
    /\ call' = [call EXCEPT ![t] =
          IF workers[t][k] # None
          THEN [NoCall EXCEPT !.at = "serve", !.key = k, !.worker = workers[t][k]]
          ELSE [NoCall EXCEPT !.at = "manifest", !.key = k]]
    /\ amiss' = [amiss EXCEPT ![t] = ~InOrder(k)]
    /\ UNCHANGED <<manifest, entry, workers, worker, told, fault>>

\* ReadManifest: is there a manifest?
FindManifest(t) ==
    /\ call[t].at = "manifest"
    /\ IF manifest[call[t].key] = "absent" THEN Fails(t, "manifest_not_found")
                                           ELSE Goes(t, "parse")
    /\ UNCHANGED <<manifest, entry, workers, worker, told, amiss, fault>>

\* ReadManifest reads and parses it, and keeps the name of the entry.  It may be
\* gone by now.  A field that is missing throws, and no caller catches it.
ParseManifest(t) ==
    LET file == manifest[call[t].key]
    IN  /\ call[t].at = "parse"
        /\ CASE file \in {"absent", "broken"} -> Fails(t, "other")
             [] file = "unknown" -> Fails(t, None)
             [] file \in Name -> call' = [call EXCEPT ![t].at = "entry", ![t].name = file]
             [] file = "fieldless" -> UNCHANGED call
        /\ fault' = (file = "fieldless")
        /\ UNCHANGED <<manifest, entry, workers, worker, told, amiss>>

\* ReadManifest: is there an entry of that name?
FindEntry(t) ==
    /\ call[t].at = "entry"
    /\ IF entry[call[t].key][call[t].name] = "absent"
       THEN Fails(t, "other") ELSE Goes(t, "read")
    /\ UNCHANGED <<manifest, entry, workers, worker, told, amiss, fault>>

\* ReadManifest reads the entry, whatever the manifest names by now.
ReadEntry(t) ==
    LET file == entry[call[t].key][call[t].name]
    IN  /\ call[t].at = "read"
        /\ IF file \in {"absent", "unreadable"} THEN Fails(t, "other")
           ELSE call' = [call EXCEPT ![t].at = "install", ![t].content = file]
        /\ UNCHANGED <<manifest, entry, workers, worker, told, amiss, fault>>

\* Bug: a script that failed to load is not noticed.
WorkerErrorNoCompile(c) ==
    IF c.error = None /\ c.content = None THEN "other" ELSE c.error

\* The constructor of Worker and prepare_runtime: a manifest that is in order
\* but names no known runtime has no content, and a script may fail to load.
WorkerError(c) ==
    IF c.error # None THEN c.error
    ELSE IF c.content \in Script THEN None ELSE "other"

\* Bug: every worker is cached, also one with an error; or none is.
MayCacheAny(error) == TRUE
MayCacheNone(error) == FALSE

\* install_worker: "if worker is ok, it can be cached".
MayCache(error) == error = None

\* install_worker: only a missing manifest makes a missing worker.
NotFound(error) == error = "manifest_not_found"

\* The rest of install_worker.  The worker of a missing manifest is deleted at
\* once; any other serves the request.  One with an error is not cached, and
\* nobody deletes it afterwards.
InstallWorker(t, w) ==
    LET c == call[t]
        error == WorkerError(c)
        new == [live |-> TRUE, thread |-> t, key |-> c.key, error |-> error,
                script |-> IF error = None THEN c.content ELSE None]
    IN  /\ c.at = "install"
        /\ ~worker[w].live
        /\ IF NotFound(error)
           THEN /\ Goes(t, "serve")
                /\ UNCHANGED <<worker, workers>>
           ELSE /\ worker' = [worker EXCEPT ![w] = new]
                /\ call' = [call EXCEPT ![t].at = "serve", ![t].worker = w]
                /\ workers' = IF MayCache(error)
                              THEN [workers EXCEPT ![t][c.key] = w] ELSE workers
        /\ UNCHANGED <<manifest, entry, told, amiss, fault>>

\* Worker::handle_http_request: the 500 of a worker with an error, or what
\* its script does; and "script not found" without a worker.
Answer(w) ==
    IF w = None THEN "not_found"
    ELSE IF worker[w].error # None THEN "server_error"
    ELSE worker[w].script

\* The end of http_handler.
Serve(t) ==
    LET c == call[t]
    IN  /\ c.at = "serve"
        /\ told' = [told EXCEPT ![t][c.key] = Answer(c.worker)]
        /\ call' = [call EXCEPT ![t] = NoCall]
        /\ amiss' = [amiss EXCEPT ![t] = FALSE]
        /\ UNCHANGED <<manifest, entry, workers, worker, fault>>

Step(t) ==
    \/ FindManifest(t) \/ ParseManifest(t) \/ FindEntry(t) \/ ReadEntry(t)
    \/ \E w \in Worker : InstallWorker(t, w)
    \/ Serve(t)

Next ==
    /\ ~fault
    /\ \/ \E k \in Key, m \in ManifestFile : EditManifest(k, m)
       \/ \E k \in Key, n \in Name, e \in BadEntry \cup Script : EditEntry(k, n, e)
       \/ \E t \in Thread, k \in Key : HttpHandler(t, k)
       \/ \E t \in Thread : Step(t)

Spec == Init /\ [][Next]_vars

-----------------------------------------------------------------------------
TypeOK ==
    /\ manifest \in [Key -> ManifestFile]
    /\ entry \in [Key -> [Name -> BadEntry \cup Script]]
    /\ workers \in [Thread -> [Key -> Worker \cup {None}]]
    /\ worker \in [Worker -> WorkerType]
    /\ call \in [Thread -> CallType]
    /\ told \in [Thread -> [Key -> Script \cup {"not_found", "server_error", None}]]
    /\ amiss \in [Thread -> BOOLEAN]
    /\ fault \in BOOLEAN

\* A worker is used by the thread that made it, and for its key, whether it
\* comes from the map or was made for one request; and the map holds only
\* workers without an error.
WorkersStayHome ==
    \A t \in Thread :
        /\ \A k \in Key : LET w == workers[t][k] IN w # None =>
              /\ worker[w].live /\ worker[w].thread = t /\ worker[w].key = k
              /\ worker[w].error = None
        /\ LET w == call[t].worker IN w # None =>
              /\ worker[w].live /\ worker[w].thread = t
              /\ worker[w].key = call[t].key

\* A worker that can serve is not lost: it is the one its thread will find
\* under its key.  So a thread has one isolate that serves for each key,
\* whatever was edited while it was made (find_worker, install_worker).
GoodWorkersAreCached ==
    \A w \in Worker : worker[w].live /\ worker[w].error = None =>
        workers[worker[w].thread][worker[w].key] = w

\* A thread that has answered with a script answers with it for ever: neither
\* an edit nor a file that is gone is noticed (workers_ is never invalidated).
AnswersStick ==
    [][\A t \in Thread, k \in Key :
          told[t][k] \in Script => told'[t][k] = told[t][k]]_vars

\* An error is never kept: a thread answers with one only if, at some moment of
\* that very request, the files of the key were out of order or the manifest was
\* pointed away from the entry whose name the request had read; whatever it has
\* answered before and whatever was edited between two file operations
\* (ReadManifest, install_worker).
ErrorsAreFresh ==
    \A t \in Thread : call[t].at = "serve" =>
        LET w == call[t].worker
        IN  w = None \/ worker[w].error # None => amiss[t]
=============================================================================
