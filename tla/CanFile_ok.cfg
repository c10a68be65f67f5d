SPECIFICATION Spec
CONSTANTS
    Files = {f1, f2, f3}
    NULL = NULL
    CAN_MAX_USECOUNT = 2
    COSIZE = 2
    CANOBJ_CONSMIN = 256
    MaxUse = 2
SYMMETRY Symmetry
INVARIANTS
    TypeOK
    ConsobjUnique
    ConsobjNotLeaked
    OpenInTable
    PromiscuousAgrees
CHECK_DEADLOCK FALSE
