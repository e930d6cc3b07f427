SPECIFICATION Spec
CONSTANTS
    SndBufSize = 2
    RcvBufSize = 1
    Blocking = TRUE
    Timed = TRUE
    PeerErrors = TRUE
INVARIANTS
    TypeOK
    NoLostWakeup
