SPECIFICATION Spec
CONSTANTS
    MaxSockets = 3
    MaxOwn = 1
    Peers = {p1}
    BackLog = 1
    Accepters = {a1}
CHECK_DEADLOCK FALSE
INVARIANTS ListenerStays
