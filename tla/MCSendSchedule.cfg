SPECIFICATION LiveSpec
CONSTANTS
    Sockets = {s1, s2}
    Callers = {app, net}
    Intervals = {0, 1}
    MaxTime = 2
    MaxCalls = 2
INVARIANTS TypeOK HeapAgrees 
PROPERTIES  WorkerExits
