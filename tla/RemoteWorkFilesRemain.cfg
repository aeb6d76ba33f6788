SPECIFICATION Spec
CONSTANTS
    Callers = {"c1"}
    MaxCrashes = 0
    MaxOutput = 0
INVARIANTS
    FilesRemain
CHECK_DEADLOCK FALSE
