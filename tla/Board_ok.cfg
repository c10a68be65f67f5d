SPECIFICATION BoardSpec
CONSTANTS
    Tick = 3
    MaxDelay = 1
    MaxLost = 3
    Jumps <- MCJumps
    Wrap = 9
    HZ_DELAY = 2
    Patterns = 2
    Parallel = FALSE
    IoSlots <- MCIoSlots
    DmaSlots <- MCDmaSlots
    Reqs = {r1, r2}
    Pages = {p1, p2}
    Invalid = Invalid
    MaxSg = 2
INVARIANTS
    TimeAccurate
    UserUndisturbed
    MappingTranslates
PROPERTIES
    PatternGoesOn
    ReachEndsWithNextGet
CHECK_DEADLOCK FALSE
