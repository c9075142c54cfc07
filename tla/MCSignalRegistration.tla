------------------------- MODULE MCSignalRegistration -------------------------
(* A small instance of SignalRegistration for TLC. *)
EXTENDS SignalRegistration, TLC

\* Task addresses are interchangeable, and so are the writers.
Symmetric == Permutations(Tasks) \cup Permutations(Writers)
=============================================================================
