SPECIFICATION MCSpec
CONSTANTS
    b1 = b1
    b2 = b2
    r1 = r1
    r2 = r2
    s1 = s1
    s2 = s2
    MaxTarget = 4
    TicksPerSecond = 2
    U64Max = 4
    Nodes <- MCNodes
    Kind <- MCKind
    Target <- MCTarget
    Root = "root"
    Top = "top"
    RootPath <- MCRootPath
    InitialTree <- MCTree
    InitialDisk <- MCDisk
    Inside <- MCInside
    Policies <- MCPolicies
    Requests <- MCRequests
    SwapChoices <- MCSwaps
    Lengths = {2, 3}
    MaxSwaps = 2
    MaxClock = 3
    MaxVersion = 2
    ChunkSize = 2
    MaxListing = 3
    MaxListingBytes = 4
    WinDirectories = {"root", "dir", "subdir", "junction"}
    WinReparse = {"junction", "link"}
    WinRoot = "root"
    WinTree <- MCWinTree
    WinNames <- MCWinNames
    WinDotted = {"dot"}
    WinAliases = {"alias"}
    WinRequests <- MCWinRequests
    WinRebinds <- MCWinRebinds
    WinRenames <- MCWinRenames
    MaxRebinds = 2
    Directories <- MCDirectories
    StrayRecords <- MCStray
    StrayTotals = {0, 1, 5, 8, 13}
    HeaderSize = 2
    BufferSize = 12
    EntryLimits = {0, 2, 6}
    DirDotted = {".h"}
    Lines <- MCLines
    PyConfigs <- MCPyConfigs
    Resolve <- MCResolve
    Addresses <- MCAddresses
    Loopback = {"127.0.0.1", "::1"}
    V4 = {"127.0.0.1", "0.0.0.0", "10.0.0.1"}
    Unspecified = {"0.0.0.0", "::"}
    MaxExtraHeaders = 2
    MaxExtraHeaderBytes = 4
    MaxPermits = 100
    MaxListed = 3
    Settings <- MCSettings
    TransportSets <- MCTransportSets
    PolicySets <- MCPolicySets
    Builders = {b1, b2}
    Inherited <- MCInherited
    Activations <- MCActivations
    Setups <- MCSetups
    Ports = {1, 2}
    AdoptAgain = FALSE
    MaxFd = 8
    MaxSetupCalls = 2
    HandlerRequests = {r1, r2}
    Objects <- MCObjects
    Shape <- MCShape
    Plans <- MCPlans
    MaxCallbacks = 1
    MaxResponseBytes = 3
    BodyReaders = {r1, r2}
    NativeChunks <- MCNativeChunks
    ChunkSizes = {0, 2, 3}
    FeedBound = 1
    StreamRequests = {s1, s2}
    MaxAsyncTasks = 1
    BridgeBound = 1
    ChannelBound = 1
    Chunks = 1

INVARIANTS
    
    CompleteMeansAdvertised
    
    ListingsAgree
    
    SetupIsSound
    
