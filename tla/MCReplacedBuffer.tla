--------------------------- MODULE MCReplacedBuffer ---------------------------
(* A small instance of ReplacedBuffer for TLC. *)
EXTENDS ReplacedBuffer, TLC

\* Slots of three bytes: a message of two bytes fills its slot to the last, a
\* shorter one leaves room for the misplaced terminator.
ThreeBytes == [b \in Blocks |-> 3]

\* Neither the processes nor the addresses of one size differ.
Symmetric == Permutations(Procs) \cup Permutations(Blocks)
=============================================================================
