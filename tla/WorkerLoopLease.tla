-------------------------- MODULE WorkerLoopLease ---------------------------
(***************************************************************************)
(* The event loop uses its contexts as ContextLease says: the queue is the *)
(* pool, and a request holds a context from get_context until its scope is *)
(* deleted.                                                                *)
(***************************************************************************)
EXTENDS WorkerLoop

HeldContext == [r \in Request |-> IF Live(r) THEN scope[r].context ELSE None]
MadeContexts == {c \in Context : ctx[c].state # "unused"}
BadContexts == {c \in MadeContexts : ctx[c].error}

Lease == INSTANCE ContextLease
            WITH idle <- pool, held <- HeldContext,
                 made <- MadeContexts, bad <- BadContexts

\* Whatever the script does and in whichever order scopes end, contexts are
\* lent and given back as ContextLease specifies.
LeaseSpec == Lease!Spec
=============================================================================
