\* Characters that wait in cancon_inbuf though the tty is open.
SPECIFICATION InputFairSpec
CONSTANTS
    Chars = {"escape", "break"}
    MaxTyped = 3
    ReadMax = 2
    OUTCHARSLEN = 2
    DatChars = 2
    MAX_RETRIES = 2
    ACKBUFLEN = 1
    InRoom = 2
    FlipRoom = 1
    MaxOpens = 1
    MaxNet = 1
PROPERTY InputGetsToTty
CHECK_DEADLOCK FALSE
