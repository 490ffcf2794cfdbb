SPECIFICATION LiveSpec
CHECK_DEADLOCK FALSE
CONSTANTS
    control = control
    completion = completion
    acceptLoop = acceptLoop
    relay = relay
    connection_driver = connection_driver
    Tokens <- MCTokens
    ServerTokens <- MCServerTokens
    Callers <- MCCallers
    Waiters <- MCWaiters
    WaitsOn <- MCWaitsOn
    s1 = s1
    s2 = s2
    H2Streams <- MCStreams
    H2Requests <- LiveH2Requests
    H2ServicePermits = 1
    H2TunnelPermits = 1
    H2BodyLimit = 1
    H2MaxRequests = 2
    H2Causes = 1
    Streams = {s1}
    H3Requests <- LiveH3Requests
    H3Responses <- LiveH3Responses
    ServicePermits = 1
    TunnelPermits = 1
    FilePermits = 1
    BodyLimit = 2
    MaxRequests = 2
    CloseCauses = {"peer"}
    Attempts = {1, 2}
    ConnectionPermits = 2
    PendingPermits = 1
    StatelessRetry = TRUE

INVARIANTS
    ParkedIsNotified

PROPERTIES
    EveryWaiterReturns
    
