\* One request with a body deadline, under fair scheduling.
SPECIFICATION Spec
CHECK_DEADLOCK FALSE
CONSTANTS
    MaxRequests = 1
    MaxPerConnection = 2
    TotalTimeout = 0
    IdleTimeout = 1
    WriteTimeout = 1
    DrainBudget = 1
    IdleOwned = TRUE
    WriteOwned = TRUE
    BodyDeadline = TRUE
    MaxTime = 1
    Urgent = FALSE

INVARIANTS
    NoOversleep

PROPERTIES
    IdleNeverInterrupts
    
