SPECIFICATION MCSpec
CONSTANTS
    Cpus = {c1, c2}
    None = None
INVARIANTS LateWorkExplained FreedQueueUse NoInterruptLost LockWorks EscapeExplained
PROPERTIES UnloadsEnd
\* The unloaded module and the crashed kernel do nothing more.
CHECK_DEADLOCK FALSE
