SPECIFICATION Spec
CONSTANTS
    OutRoom = 3
    PktChars = 2
    MsgChars = 1
    WriteChars = {1, 4}
    MaxOld = 1
    LateAcks = FALSE
PROPERTIES
    AckOrTimeout
CHECK_DEADLOCK FALSE
