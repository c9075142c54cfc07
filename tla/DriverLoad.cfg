\* All drivers, two loads (of one driver or of two) and one or two failures;
\* the loads of drivers that get in each other's way overlap.
SPECIFICATION Spec
CONSTANTS
    Drivers <- AllDrivers
    Rivals <- NamesShared
    MaxLoads = 2
    MaxFaults = 2
INVARIANTS CleanCycle EarlyFailureUnwinds CrashExplained
\* A bounded number of loads.
CHECK_DEADLOCK FALSE
