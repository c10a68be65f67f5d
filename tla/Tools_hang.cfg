\* The alarm goes off while canping is not in read().
SPECIFICATION FairSpec
CONSTANTS
    Values = {2, 7}
    Proms <- MCProms
    Pingers = {"ping"}
    Ctrls = {}
    At <- MCAt
    Asks <- MCAsks
    MaxPings = 3
    MaxNet = 1
PROPERTY PingGoesOn
CHECK_DEADLOCK FALSE
