\* Two processes use the file of procfs_module.c or of vmalloc.c; memory for
\* one block more than that of the message is there, and then none.
SPECIFICATION Spec
CONSTANTS
    NULL = NULL
    Kinds = {"procfs", "vmalloc"}
    Procs = {p1, p2}
    Blocks = {b1, b2}
    Slot <- ThreeBytes
    Lens = {0, 1, 2}
SYMMETRY Symmetric
INVARIANTS MessageRead HeapAccounted
PROPERTIES MisuseExplained
\* The unloaded module and the crashed kernel do nothing more.
CHECK_DEADLOCK FALSE
