SPECIFICATION Spec
CONSTANTS
    MAXRING = 3
    Pkt = {x, y}
    NoPkt = none
    Producers <- OutqProducers
    Consumers <- OutqConsumers
    Excludes <- OutqExcludes
PROPERTIES
    FifoSpec
