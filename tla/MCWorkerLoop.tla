---------------------------- MODULE MCWorkerLoop ----------------------------
(* Instances of WorkerLoop for TLC: requests, contexts, fetches and promises *)
(* are interchangeable.                                                      *)
EXTENDS WorkerLoopLease, WorkerLoopExchange, TLC

Symmetry ==
    UNION {Permutations(Request), Permutations(Context),
           Permutations(Fetch), Permutations(Name)}
=============================================================================
