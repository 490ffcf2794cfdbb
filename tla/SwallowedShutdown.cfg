\* The owner alone in wait(), one stream and one transient accept error: the
\* smallest instance in which the shutdown message can be lost.
SPECIFICATION CoreSpec
CHECK_DEADLOCK FALSE
CONSTANTS
    Callers = {}
    Owner = owner
    Task = task
    CoreConns = {c1}
    MaxCoreConnections = 1
    OwnerCalls = {"wait"}
    AcceptErrors = {"transient"}
    MaxErrors = 1
    MaxSignals = 0
PROPERTIES
    WaitReturns
