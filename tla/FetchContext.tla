---------------------------- MODULE FetchContext ----------------------------
(***************************************************************************)
(* One V8FetchContext, the object behind a fetch() call of a script, as a  *)
(* record, and the operations that change it.                              *)
(*                                                                         *)
(* The object is reference counted (common::RefCounted) because two        *)
(* threads hold it: the event loop through RequestScope::fetch_requests_,  *)
(* and the HTTP client's own thread through the callback do_request gives  *)
(* to sendAsync.  "refs" is ref_count_; the object is deleted when it      *)
(* drops to zero.  "state" is where the call is:                           *)
(*                                                                         *)
(*   unused   no object yet                                                *)
(*   created  saved in its scope, request not sent (is_sent_ is false)     *)
(*   sent     the client thread has it                                     *)
(*   queued   answered: fulfill_promise waits in the loop's queue          *)
(*   running  fulfill_promise is on the loop's stack                       *)
(*   done     fulfill_promise has returned                                 *)
(*   lost     sendAsync called back with a null response                   *)
(***************************************************************************)
EXTENDS Integers

CONSTANTS Request,    \* HTTP requests; each one names its RequestScope too
          None        \* the null pointer

FetchState == {"unused", "created", "sent", "queued", "running", "done", "lost"}

FetchType == [state : FetchState, scope : Request \cup {None}, refs : Int]

\* A slot in which no object was ever allocated.
NoFetch == [state |-> "unused", scope |-> None, refs |-> 0]

\* The constructor: one reference, owned by the request scope it is saved in.
NewFetch(r) == [state |-> "created", scope |-> r, refs |-> 1]

\* RefCounted::retain and RefCounted::release.
Retain(x) == [x EXCEPT !.refs = @ + 1]
Release(x) == [x EXCEPT !.refs = @ - 1]

\* Bug: the callback does not keep the object alive.
DoRequestNoRetain(x) ==
    IF x.state = "created" THEN [x EXCEPT !.state = "sent"] ELSE x

\* do_request: sent at most once; the pending callback owns a reference.
DoRequest(x) ==
    IF x.state = "created" THEN [Retain(x) EXCEPT !.state = "sent"] ELSE x

\* The callback of sendAsync, on the client's thread: with a response it
\* queues fulfill_promise on the loop, with nullptr it returns.
Answered(x) == [x EXCEPT !.state = "queued"]
Unanswered(x) == [x EXCEPT !.state = "lost"]

\* fulfill_promise begins; and ends, dropping the callback's reference.
Started(x) == [x EXCEPT !.state = "running"]

\* Bug: fulfill_promise forgets its release().
FinishedNoRelease(x) == [x EXCEPT !.state = "done"]

Finished(x) == [Release(x) EXCEPT !.state = "done"]

\* The reference the callback of sendAsync accounts for.
HeldByCallback(x) == x.state \in {"sent", "queued", "running", "lost"}

\* A request the loop may still have to run fulfill_promise for.
Unfinished(x) == x.state \in {"created", "sent", "queued"}
=============================================================================
