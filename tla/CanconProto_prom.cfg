SPECIFICATION Spec
CONSTANTS
    Clients = {c1}
    Fopt = {}
    MAX_RETRIES = 2
    HEIST_POLLS = 2
    MaxDisc = 1
    MaxQ = 1
    Refuses = TRUE
    Reboots = FALSE
    Loss = FALSE
    Late = FALSE
INVARIANTS
    ConnectionPersists
CHECK_DEADLOCK FALSE
