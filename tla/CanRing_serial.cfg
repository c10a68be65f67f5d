SPECIFICATION Spec
CONSTANTS
    MAXRING = 3
    Pkt = {x, y}
    NoPkt = none
    Producers <- SerialProducers
    Consumers <- SerialConsumers
    Excludes <- SerialExcludes
INVARIANTS
    TypeOK
    RingInv
PROPERTIES
    FifoSpec
