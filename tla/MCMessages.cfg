SPECIFICATION Spec
CONSTANTS
    RcvBufSize = 4
    Sizes = {1, 2}
    Orders = {TRUE, FALSE}
    Mortal = {FALSE}
    MaxBlocks = 5
    NetCapacity = 1
INVARIANTS
    TypeOK
    SlotsFollowNumbers
    ReadWhole
    ReadInOrder
CHECK_DEADLOCK FALSE
