---------------------------- MODULE HttpExchange ----------------------------
(***************************************************************************)
(* What a worker promises to the clients of its requests: a request that   *)
(* was taken is answered once, by the script that ran for it, and let go   *)
(* only after that.  Requests are independent of each other.               *)
(***************************************************************************)
EXTENDS Sequences

CONSTANT Request

VARIABLES phase,      \* how far each request is
          answers     \* what its client got: the requests whose script built it

vars == <<phase, answers>>

Phase == {"none", "open", "answered", "closed"}

Init ==
    /\ phase = [r \in Request |-> "none"]
    /\ answers = [r \in Request |-> <<>>]

Arrive(r) ==
    /\ phase[r] = "none"
    /\ phase' = [phase EXCEPT ![r] = "open"]
    /\ UNCHANGED answers

\* The answer is written; the request may have more to do, or nothing.
Answer(r) ==
    /\ phase[r] = "open"
    /\ \E next \in {"answered", "closed"} : phase' = [phase EXCEPT ![r] = next]
    /\ answers' = [answers EXCEPT ![r] = Append(@, r)]

Close(r) ==
    /\ phase[r] = "answered"
    /\ phase' = [phase EXCEPT ![r] = "closed"]
    /\ UNCHANGED answers

Next == \E r \in Request : Arrive(r) \/ Answer(r) \/ Close(r)

Spec == Init /\ [][Next]_vars
=============================================================================
