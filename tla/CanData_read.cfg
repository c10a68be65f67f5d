SPECIFICATION FairSpec
CONSTANTS
    Writers = {}
    Readers = {"r1"}
    NonBlock = {}
    Snoopy = {}
    WritePkts = {"other", "mine"}
    Counts = {1}
    RxPkts = {"mine"}
    MaxRx = 1
    QRoom = 1
    FdRoom = 1
    HB_IAM_FACTOR = 1
PROPERTIES
    ReadReturns
CHECK_DEADLOCK FALSE
