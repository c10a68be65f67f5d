\* Three pings, late and lost answers, two canctrls.
SPECIFICATION Spec
CONSTANTS
    Values = {2, 7}
    Proms <- MCProms
    Pingers = {"ping"}
    Ctrls = {"ctrl", "other"}
    At <- MCAt
    Asks <- MCAsks
    MaxPings = 3
    MaxNet = 1
INVARIANT SilentAnswerIsOwn
PROPERTY ResetWhole
CHECK_DEADLOCK FALSE
