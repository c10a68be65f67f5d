\* What canctrl sends of the data it is given.
SPECIFICATION Spec
CONSTANTS
    Values = {2, 7}
    Proms <- MCProms
    Pingers = {"ping"}
    Ctrls = {"ctrl", "other"}
    At <- MCAt
    Asks <- HexAsks
    MaxPings = 3
    MaxNet = 1
INVARIANT DataAsGiven
CHECK_DEADLOCK FALSE
