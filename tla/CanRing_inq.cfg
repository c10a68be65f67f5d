SPECIFICATION Spec
CONSTANTS
    MAXRING = 3
    Pkt = {x, y}
    NoPkt = none
    Producers <- InqProducers
    Consumers <- InqConsumers
    Excludes <- InqExcludes
PROPERTIES
    FifoSpec
