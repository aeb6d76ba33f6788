SPECIFICATION FairSpec
CONSTANTS
    Callers = {"c1"}
    MaxCrashes = 1
    MaxOutput = 2
INVARIANTS
    AtMostOnce
    SucceededIsTrue
    NoOrphan
PROPERTIES
    OutputComplete
    JobsFinish
CHECK_DEADLOCK FALSE
