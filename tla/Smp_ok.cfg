SPECIFICATION FairSpec
CONSTANTS
    NR_CPUS = 2
    Pals = {0, 1}
    LateCallin = FALSE
INVARIANTS
    RunningAreCounted
PROPERTIES
    CrossCallSpec
    CallReturns
    RescheduleArrives
CHECK_DEADLOCK FALSE
