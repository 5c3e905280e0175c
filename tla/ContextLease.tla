---------------------------- MODULE ContextLease ----------------------------
(***************************************************************************)
(* What the pool of V8Runtime promises to the requests of a worker: a      *)
(* context is lent to one request at a time, the one that waited longest   *)
(* first; a new one is made only when none is idle; a good one is given    *)
(* back, and one whose script failed is never lent again.                  *)
(***************************************************************************)
EXTENDS Sequences

CONSTANTS Request, Context, None

VARIABLES idle,     \* the contexts in the queue, the next one to lend first
          held,     \* the context each request holds
          made,     \* the contexts that were ever made
          bad       \* those of them whose script failed

vars == <<idle, held, made, bad>>

Init ==
    \E c \in Context :
        /\ idle = <<c>>
        /\ held = [r \in Request |-> None]
        /\ made = {c}
        /\ bad = {}

\* get_context with an idle context.
Lend(r) ==
    /\ held[r] = None /\ idle # <<>>
    /\ held' = [held EXCEPT ![r] = Head(idle)]
    /\ idle' = Tail(idle)
    /\ UNCHANGED <<made, bad>>

\* get_context with none: the new context may be a bad one.
LendNew(r, c) ==
    /\ held[r] = None /\ idle = <<>> /\ c \notin made
    /\ held' = [held EXCEPT ![r] = c]
    /\ made' = made \cup {c}
    /\ bad' \in {bad, bad \cup {c}}
    /\ UNCHANGED idle

\* recycle_context.
Return(r) ==
    /\ held[r] # None /\ held[r] \notin bad
    /\ idle' = Append(idle, held[r])
    /\ held' = [held EXCEPT ![r] = None]
    /\ UNCHANGED <<made, bad>>

Discard(r) ==
    /\ held[r] # None /\ held[r] \in bad
    /\ held' = [held EXCEPT ![r] = None]
    /\ UNCHANGED <<idle, made, bad>>

Next ==
    \E r \in Request :
        \/ Lend(r) \/ Return(r) \/ Discard(r)
        \/ \E c \in Context : LendNew(r, c)

Spec == Init /\ [][Next]_vars
=============================================================================
