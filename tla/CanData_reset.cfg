SPECIFICATION FairSpec
CONSTANTS
    Writers = {"w1"}
    Readers = {"r1"}
    NonBlock = {"r1"}
    Snoopy = {}
    WritePkts = {"other", "mine"}
    Counts = {1}
    RxPkts = {"req"}
    MaxRx = 1
    QRoom = 1
    FdRoom = 1
    HB_IAM_FACTOR = 1
PROPERTIES
    XmitResumes
CHECK_DEADLOCK FALSE
