SPECIFICATION FairSpec
CONSTANTS
    Writers = {}
    Readers = {"r1"}
    NonBlock = {"r1"}
    Snoopy = {"r1"}
    WritePkts = {"other"}
    Counts = {1}
    RxPkts = {"req"}
    MaxRx = 2
    QRoom = 2
    FdRoom = 1
    HB_IAM_FACTOR = 1
PROPERTIES
    XmitProgress
    RecvProgress
CHECK_DEADLOCK FALSE
