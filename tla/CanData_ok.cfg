SPECIFICATION FairSpec
CONSTANTS
    Writers = {"w1"}
    Readers = {}
    NonBlock = {}
    Snoopy = {}
    WritePkts = {"other", "mine"}
    Counts = {1}
    RxPkts = {"req"}
    MaxRx = 1
    QRoom = 2
    FdRoom = 1
    HB_IAM_FACTOR = 1
INVARIANTS
    TypeOK
    InqAttended
PROPERTIES
    WriterWakes
CHECK_DEADLOCK FALSE
