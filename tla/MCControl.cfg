SPECIFICATION ControlSpec
CONSTANTS
    Callers = {j1, j2}
    MaxWorkers = 2
    MaxCalls = 3
    Clients = {c1, c2}
    Registrar = registrar
    Units = {u1}
    MaxRequests = 3
    Total = 2
    MaxCrashes = 2
INVARIANTS
    OneJobAtATime
    RegistryIsSound
    OnlyJamsBlock
    CompleteIsComplete
    SucceededIsTrue
    PidSurvives
    CancelSticks
PROPERTIES
    CancelledJobEnds
    ResultsAreRelayed
    ControlGoesOn
    NotRunningForever
    CancelKills
CHECK_DEADLOCK FALSE
