SPECIFICATION FairSpec
CONSTANTS
    Clients = {c1, c2}
    Fopt = {c2}
    MAX_RETRIES = 2
    HEIST_POLLS = 2
    MaxDisc = 1
    MaxQ = 2
    Refuses = FALSE
    Reboots = TRUE
    Loss = TRUE
    Late = TRUE
PROPERTIES
    Settles
    DisconnectEnds
CHECK_DEADLOCK FALSE
