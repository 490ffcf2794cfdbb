CONSTANTS
    k1 = k1
    t1 = t1
    t2 = t2
    p1 = p1
    p2 = p2
    s1 = s1
    Conns <- MCConns
    MaxActiveTunnels = 1
    Fates <- AllFates
    MaxConns = 1
    MaxStarts = 2
    Grace = 2
    Threads <- MCThreads
    MaxGens = 2
    Facades = {TRUE, FALSE}
    Pythons <- MCPythons
    TunnelBound = 1
    PeerFrames = 2
    PyFrames = 3
    StreamRequests <- MCStreamRequests
    MaxAsyncTasks = 1
    BridgeBound = 1
    ChannelBound = 1
    Chunks = 2
SPECIFICATION MCSpec

    
PROPERTIES
    HostsSettle
    ShutdownEndsConnection
CHECK_DEADLOCK FALSE
