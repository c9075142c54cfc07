\* Two threads that add, or one and the readers of its lab; with every lock.
SPECIFICATION FairSpec
CONSTANTS
    t0 = t0
    t1 = t1
    t2 = t2
    t3 = t3
    Nobody = Nobody
    Guards <- Disciplines
    Team <- LabThreads
    Writers = {t0, t1}
    Readers = {t2, t3}
    Amount = 1
    StopOrder <- ThreadOrder
    MaxRounds = 6
INVARIANTS NoLostUpdate
PROPERTIES Atomic ExitStopsAll
\* The threads return when the module is unloaded.
CHECK_DEADLOCK FALSE
