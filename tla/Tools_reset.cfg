\* A RESET_IO that finds an input device whose value is not in the table.
SPECIFICATION Spec
CONSTANTS
    Values = {2, 7}
    Proms <- MCProms
    Pingers = {"ping"}
    Ctrls = {"ctrl", "other"}
    At <- MCAt
    Asks <- MCAsks
    MaxPings = 3
    MaxNet = 1
PROPERTY ResetSetsBoth
CHECK_DEADLOCK FALSE
