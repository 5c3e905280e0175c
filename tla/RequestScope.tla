---------------------------- MODULE RequestScope ----------------------------
(***************************************************************************)
(* One RequestScope as a record, and the functions of the class that only  *)
(* touch the scope itself.  The scope is made when a request arrives and   *)
(* deleted by destroy().                                                   *)
(*                                                                         *)
(*   life      none, live, dead: before, between and after new and delete  *)
(*   context   the V8JsContext that handle_http_request took for it        *)
(*   runtime   runtime_context_: None until set_runtime_context            *)
(*   error     error_code_ # 0                                             *)
(*   response  response_: the request whose script built the Response      *)
(*   status    the status code of that Response                            *)
(*   sent      is_response_sent_                                           *)
(*   waits     waituntils_: the promises passed to event.waitUntil         *)
(*   pending   listeners whose async function has not settled              *)
(*   rejected  those of them that were rejected later                      *)
(*                                                                         *)
(* A promise a script made is the name it has in the script.  Its value is *)
(* one of PromiseValue: "response" is a Response allocated in the heap of  *)
(* the scope, "shared" one allocated at the top level of the script, in    *)
(* the heap of the global scope, "other" any value that is not a Response. *)
(***************************************************************************)
EXTENDS FetchContext

CONSTANTS Context,      \* V8JsContext objects
          Name,         \* promises of one run of the script
          Status,       \* status codes a script gives to its responses
          NListeners    \* "fetch" listeners the script registers

Fulfilled == {"response", "shared", "other"}
PromiseValue == {"pending", "rejected"} \cup Fulfilled

InternalServerError == 500

ScopeType ==
    [life : {"none", "live", "dead"},
     context : Context \cup {None},
     runtime : Context \cup {None},
     error : BOOLEAN,
     response : Request \cup {None},
     status : Int,
     sent : BOOLEAN,
     waits : SUBSET Name,
     pending : SUBSET (1 .. NListeners),
     rejected : SUBSET (1 .. NListeners)]

\* Fields of a scope at its construction, with the context taken for it.
ScopeWith(life, c) ==
    [life |-> life, context |-> c, runtime |-> None, error |-> FALSE,
     response |-> None, status |-> 0, sent |-> FALSE,
     waits |-> {}, pending |-> {}, rejected |-> {}]

NoScope == ScopeWith("none", None)
NewScope(c) == ScopeWith("live", c)

\* What is remembered of a scope that was deleted: the properties ask whether
\* it was done.
DeadScope(s) == [NoScope EXCEPT !.life = "dead", !.sent = s.sent, !.waits = s.waits]

SetResponse(s, r, st) == [s EXCEPT !.response = r, !.status = st]
SetError(s) == [s EXCEPT !.error = TRUE]

\* Bug: the scope does not learn its context; ~RequestScope will not recycle it.
SetRuntimeContextForgotten(s) == s

SetRuntimeContext(s) == [s EXCEPT !.runtime = s.context]

\* Bug: a settled promise counts, fulfilled or not.
AllWaitUntilsSettled(s, values) == \A n \in s.waits : values[n] # "pending"

\* Bug: only a scope without a waitUntil is done.
NoWaitUntils(s, values) == s.waits = {}

\* is_all_waituntils_done: counts the fulfilled ones; a rejected promise is
\* not fulfilled.
AllWaitUntilsDone(s, values) == \A n \in s.waits : values[n] \in Fulfilled

\* Bug: is_response_sent_ is not set by the branch that writes.
HandleResponseForgetsSent(s) == [s EXCEPT !.sent = s.error]

\* handle_response on a scope: the early return when a response was sent, the
\* error branch, the response branch, and nothing to send.
HandleResponse(s) ==
    [s EXCEPT !.sent = s.sent \/ s.error \/ s.response # None]

\* The response branch of handle_response: it writes to the client.
Writes(s) == ~s.sent /\ ~s.error /\ s.response # None

\* Bug: an error gives the handler no status to return.
ResponseStatusNoError(s) == IF s.response # None /\ ~s.error THEN s.status ELSE 0

\* What handle_response returns when nothing was sent yet.
ResponseStatus(s) ==
    IF s.error THEN InternalServerError
    ELSE IF s.response # None THEN s.status ELSE 0
=============================================================================
