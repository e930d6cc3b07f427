SPECIFICATION FairSpec
CONSTANTS
    SndBufSize = 1
    RcvBufSize = 1
    Blocking = TRUE
    Timed = FALSE
    PeerErrors = FALSE
INVARIANTS
    NeverZero
PROPERTIES
    NobodyStuck
    CallsReturnAtTheEnd
