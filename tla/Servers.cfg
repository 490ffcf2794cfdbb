SPECIFICATION MCSpec
CHECK_DEADLOCK FALSE
CONSTANTS
    a = a
    owner = owner
    runner = runner
    c1 = c1
    c2 = c2
    c3 = c3
    Conns <- MCConns
    MaxConnections = 2
    Callers <- OneCaller
    Owner = owner
    Task = runner
    CoreConns <- MCCoreConns
    MaxCoreConnections = 1
    OwnerCalls <- AllCalls
    AcceptErrors <- AllErrors
    MaxErrors = 1
    MaxSignals = 1
    r1 = r1
    r2 = r2
    e1 = e1
    e2 = e2
    x1 = x1
    TowerRequests <- MCTowerRequests
    TowerSlots = 1
    MaxFrames = 3
    Heads <- MCHeads
    Edits <- MCEdits
    Emitters <- MCEmitters
    Contexts <- MCContexts
    Shapes <- MCShapes
    AppShapes <- MCAppShapes
    Severities = {1, 2}
    MaxEvents = 1

INVARIANTS
    OwnershipIsExact
    TerminalIsHonest
    AdapterKeepsExchanges
    OperationsAreSound

PROPERTIES
    AdmitsWithinLimit
    CoreAdmitsWithinLimit
    ServersSettle
