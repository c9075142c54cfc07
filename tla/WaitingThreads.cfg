SPECIFICATION MCSpec
CONSTANTS
    Processes = {r1, r2, r3}
    MaxReads = 8
INVARIANTS ThreadIsWoken StopKept NoMissedCompletion CompletionsAddUp
PROPERTIES UnloadStopsThreads
\* The last thread and the exit function return.
CHECK_DEADLOCK FALSE
