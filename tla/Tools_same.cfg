\* Another tool of the same node reads TESTRW.
SPECIFICATION Spec
CONSTANTS
    Values = {2, 7}
    Proms <- MCProms
    Pingers = {"ping"}
    Ctrls = {"ctrl"}
    At <- MCAt
    Asks <- TestrwAsks
    MaxPings = 3
    MaxNet = 1
INVARIANT SilentAnswerIsOwn
CHECK_DEADLOCK FALSE
