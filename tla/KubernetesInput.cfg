SPECIFICATION Spec
CONSTANTS
    Lines = 2
    RetrySetting = 2
    MaxCrashes = 1
INVARIANT
    InputArrives
