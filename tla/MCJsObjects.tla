----------------------------- MODULE MCJsObjects -----------------------------
(* An instance of JsObjects for TLC: requests and variables of the script    *)
(* are interchangeable.                                                      *)
EXTENDS JsObjects, TLC

Symmetry == Permutations(Request) \cup Permutations(Object)
=============================================================================
