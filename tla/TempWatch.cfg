\* Readers of wait, writers of threshold and a reader of the device; the
\* threshold at load is one no temperature exceeds.
SPECIFICATION FairSpec
CONSTANTS
    Waiters = {w1,w2}
    Setters = {s1,s2}
    Readers = {r1}
    Temps = {0, 1}
    Thresholds = {0, 1}
    Default = 1
    SignalsCome = TRUE
    NoOwner = NoOwner
INVARIANTS NoMissedWakeup SilentReturnExplained
PROPERTIES ThresholdFrozenByFailure UnloadEnds
\* An unloaded module does nothing more.
CHECK_DEADLOCK FALSE
