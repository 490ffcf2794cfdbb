SPECIFICATION MCSpec
CHECK_DEADLOCK FALSE
CONSTANTS
    k1 = k1
    k2 = k2
    Conns <- MCConns
    MaxActiveTunnels = 1
    MaxRequests = 2
    MaxPerConnection = 2
    TotalTimeout = 2
    IdleTimeout = 1
    WriteTimeout = 1
    DrainBudget = 1
    IdleOwned = TRUE
    WriteOwned = TRUE
    BodyDeadline = FALSE
    MaxTime = 2
    Urgent = TRUE

INVARIANTS
    CountersExact
    BudgetFollowsTunnels
    TunnelsEndWithOwners


    
