---------------------------- MODULE MCCharBuffer ----------------------------
(* Small instances of CharBuffer for TLC. *)
EXTENDS CharBuffer, TLC

\* Processes of one kind are interchangeable.
ProcessSymmetry == Permutations(Writers) \cup Permutations(Readers)
=============================================================================
