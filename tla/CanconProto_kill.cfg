SPECIFICATION Spec
CONSTANTS
    Clients = {c1}
    Fopt = {}
    MAX_RETRIES = 2
    HEIST_POLLS = 2
    MaxDisc = 1
    MaxQ = 1
    Refuses = FALSE
    Reboots = FALSE
    Loss = FALSE
    Late = FALSE
INVARIANTS
    DisconnectReleases
CHECK_DEADLOCK FALSE
