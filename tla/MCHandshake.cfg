SPECIFICATION Spec
CONSTANTS
    Modes = {TRUE}
    MaxCalls = 2
    MaxConns = 2
    MaxStored = 1
    MaxMinute = 0
INVARIANTS
    TypeOK
    OneConnection
    SuccessAgrees
