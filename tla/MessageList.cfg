SPECIFICATION Spec
CONSTANTS
    Writers = {w1, w2}
    Readers = {r1}
    Nodes = {n1, n2, n3, n4}
    head_node = head_node
SYMMETRY Symmetry
INVARIANTS WalkIsSafe WalkIsComplete
\* hello_exit is the end.
CHECK_DEADLOCK FALSE
