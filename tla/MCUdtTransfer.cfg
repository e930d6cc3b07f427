CONSTANTS
    ISN = 7
    SndBufSize = 2
    RcvBufSize = 3
    FlightFlagSize = 2
    CongestionWindows = {16}
    MaxEXP = 0
    MayGiveUp = TRUE
    MaxWritten = 4
    NetCapacity = 2
SPECIFICATION Spec
INVARIANTS
    TypeOK
    DeliveredInOrder
    FreedOnlyWhenHeld
    BlocksMatchNumbers
    PeerNeverDistrusted
    LossListIsHoles
    RepeatUntilFreed
    LossesInBuffer
    SlotsDistinct
PROPERTIES
    StreamSpec
CHECK_DEADLOCK FALSE
