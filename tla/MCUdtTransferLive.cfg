CONSTANTS
    ISN = 7
    SndBufSize = 2
    RcvBufSize = 2
    FlightFlagSize = 2
    CongestionWindows = {16}
    MaxEXP = 0
    MayGiveUp = FALSE
    MaxWritten = 2
    NetCapacity = 2
SPECIFICATION FairSpec
PROPERTIES
    EventuallyDrained
CHECK_DEADLOCK FALSE
