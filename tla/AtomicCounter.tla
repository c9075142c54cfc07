---------------------------- MODULE AtomicCounter ----------------------------
(***************************************************************************)
(* What the locks of labs 12, 15 and 24 promise: adding to the variable    *)
(* and printing the result is one step, and so is looking at it.  A reader *)
(* that prints before it knows whether it was disturbed (early) may also   *)
(* show the addition that is under way, but does not leave it at that.     *)
(***************************************************************************)
EXTENDS Integers

CONSTANTS
    Writers,   \* threads that add
    Readers,   \* threads that only look
    Amount     \* what a round adds

VARIABLES
    total,     \* the variable
    shown,     \* what each thread printed last
    kept,      \* the last print it left at that
    early      \* the readers print before they know

Init ==
    /\ total = 0
    /\ shown = [t \in Writers \cup Readers |-> 0]
    /\ kept = [t \in Writers \cup Readers |-> 0]
    /\ early \in BOOLEAN

\* The thread prints v and leaves it at that.
PrintForGood(t, v) ==
    /\ shown' = [shown EXCEPT ![t] = v]
    /\ kept' = [kept EXCEPT ![t] = v]

\* A whole round of a writer.
Tick(t) ==
    /\ total' = total + Amount
    /\ PrintForGood(t, total')
    /\ UNCHANGED early

\* A whole round of a reader.
Look(t) ==
    /\ PrintForGood(t, total)
    /\ UNCHANGED <<total, early>>

\* A print that does not stand yet.
Peek(t) ==
    /\ early
    /\ \E v \in {total, total + Amount} : shown' = [shown EXCEPT ![t] = v]
    /\ UNCHANGED <<total, kept, early>>

Next ==
    \/ \E t \in Writers : Tick(t)
    \/ \E t \in Readers : Look(t) \/ Peek(t)

Spec == Init /\ [][Next]_<<total, shown, kept, early>>
=============================================================================
