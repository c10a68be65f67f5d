SPECIFICATION Spec
CONSTANTS
    NR_CPUS = 2
    Pals = {0, 1}
    LateCallin = FALSE
INVARIANTS
    TickerGoing
CHECK_DEADLOCK FALSE
