SPECIFICATION FairSpec
CONSTANTS
    OutRoom = 3
    PktChars = 2
    MsgChars = 1
    WriteChars = {1, 4}
    MaxOld = 1
    LateAcks = TRUE
INVARIANTS
    TypeOK
    PendingHasTimer
    OutbufAttended
PROPERTIES
    PendingEnds
    WriterWakes
CHECK_DEADLOCK FALSE
