--------------------------- MODULE MCEventTarget ----------------------------
(* Instances of EventTarget for TLC.                                         *)
EXTENDS EventTarget, TLC

\* Contexts are interchangeable, and so are requests.
Symmetry == Permutations(Request) \cup Permutations(Context)
=============================================================================
