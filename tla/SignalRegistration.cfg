\* Two addresses that processes come and go at, two writers, either driver.
SPECIFICATION Spec
CONSTANTS
    Drivers = {"signal_module", "sec_signal_module"}
    Tasks = {t1, t2}
    Writers = {w1, w2}
    NULL = NULL
    Lens = {1, 2, 3, 4}
    BUFF_SIZE = 3
    MaxSignals = 1
SYMMETRY Symmetric
INVARIANTS MessageWhole SelfSignalled
PROPERTIES StraysExplained
\* After the use of freed memory nothing is said of what follows.
CHECK_DEADLOCK FALSE
