SPECIFICATION LiveSpec
CONSTANTS
    MaxSockets = 3
    MaxOwn = 1
    Peers = {p1}
    BackLog = 1
    Accepters = {a1}
INVARIANTS TypeOK NothingDangles AcceptWoken
PROPERTIES ClosedIsDeleted
CHECK_DEADLOCK FALSE
