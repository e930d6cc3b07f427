SPECIFICATION DropSpec
CONSTANTS
    RcvBufSize = 8
    Sizes = {1, 2}
    Orders = {FALSE}
    Mortal = {TRUE, FALSE}
    MaxBlocks = 3
    NetCapacity = 1
CHECK_DEADLOCK FALSE
INVARIANTS FreedWhenArrived
