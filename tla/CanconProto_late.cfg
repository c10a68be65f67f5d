SPECIFICATION Spec
CONSTANTS
    Clients = {c1, c2}
    Fopt = {}
    MAX_RETRIES = 2
    HEIST_POLLS = 2
    MaxDisc = 1
    MaxQ = 2
    Refuses = FALSE
    Reboots = FALSE
    Loss = TRUE
    Late = TRUE
INVARIANTS
    AtMostOneUp
CHECK_DEADLOCK FALSE
