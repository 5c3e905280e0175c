-------------------------- MODULE MCReadableStream --------------------------
(* An instance of ReadableStream for TLC.                                    *)
EXTENDS ReadableStream

MCHabits == AllHabits
=============================================================================
