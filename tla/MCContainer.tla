---------------------------- MODULE MCContainer -----------------------------
(* Instances of Container for TLC: threads, keys, names, workers and scripts *)
(* are interchangeable.                                                      *)
EXTENDS Container, TLC

Symmetry ==
    UNION {Permutations(Thread), Permutations(Key), Permutations(Name),
           Permutations(Worker), Permutations(Script)}
=============================================================================
