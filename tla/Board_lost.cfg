SPECIFICATION BoardSafe
CONSTANTS
    Tick = 3
    MaxDelay = 0
    MaxLost = 2
    Jumps <- MCJumps
    Wrap = 12
    HZ_DELAY = 2
    Patterns = 2
    Parallel = FALSE
    IoSlots <- MCIoSlots
    DmaSlots <- MCDmaSlots
    Reqs = {r1, r2}
    Pages = {p1, p2}
    Invalid = Invalid
    MaxSg = 2
PROPERTIES
    TimeForward
CHECK_DEADLOCK FALSE
