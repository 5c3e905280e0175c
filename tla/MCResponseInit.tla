--------------------------- MODULE MCResponseInit ---------------------------
(* An instance of ResponseInit for TLC.                                      *)
EXTENDS ResponseInit

MCName == {"A", "a", "b"}
MCLower == [n \in MCName |-> IF n = "A" THEN "a" ELSE n]
=============================================================================
