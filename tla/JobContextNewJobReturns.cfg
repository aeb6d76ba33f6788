SPECIFICATION FairSpec
CONSTANTS
    Callers = {c1, c2}
    MaxWorkers = 1
    MaxCalls = 3
PROPERTIES
    NewJobReturns
CHECK_DEADLOCK FALSE
