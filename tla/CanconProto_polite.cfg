SPECIFICATION Spec
CONSTANTS
    Clients = {c1, c2, c3}
    Fopt = {}
    MAX_RETRIES = 3
    HEIST_POLLS = 2
    MaxDisc = 1
    MaxQ = 2
    Refuses = TRUE
    Reboots = TRUE
    Loss = FALSE
    Late = FALSE
SYMMETRY Symmetry
INVARIANTS
    TypeOK
    UpOwns
CHECK_DEADLOCK FALSE
