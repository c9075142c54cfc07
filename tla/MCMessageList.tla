---------------------------- MODULE MCMessageList ----------------------------
(* Small instances of MessageList for TLC. *)
EXTENDS MessageList, TLC

\* Nodes, writers and readers are interchangeable.
Symmetry == Permutations(Nodes) \cup Permutations(Writers) \cup Permutations(Readers)
=============================================================================
