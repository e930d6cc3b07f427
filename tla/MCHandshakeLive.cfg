SPECIFICATION FairSpec
CONSTANTS
    Modes = {TRUE, FALSE}
    MaxCalls = 1
    MaxConns = 2
    MaxStored = 1
    MaxMinute = 2
PROPERTIES
    CallReturns
    ConnectingEnds
    CookieIsFresh
CHECK_DEADLOCK FALSE
