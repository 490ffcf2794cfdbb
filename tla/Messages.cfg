SPECIFICATION MCSpec
CHECK_DEADLOCK FALSE
CONSTANTS
    none = none
    NoLength = none
    Bodies <- MCBodies
    Responses <- MCResponses
    MessageRequests <- MCMessageRequests
    MessagePolicies <- MCMessagePolicies
    EditFields <- MCEditFields
    Presentations <- MCPresentations
    Rejections = {304, 405, 413, 503}
    MaxRejectionBody = 4
    MaxRejectionFields = 2
    ErrorBytes = 3
    ChunkBytes = 2
    ChunkSizes = {1, 3, 5}
    DeclaredLengths = {0, 3}
    TrailerNames = {"t", "u"}
    EmptyRunLimit = 2
    MaxProduced = 6
    InterimCalls <- MCInterimCalls
    MaxCount = 3
    MaxBytes = 2
    MaxAttempts = 4
    IntakeRequests <- MCIntakeRequests
    IntakePolicies <- MCIntakePolicies
    ServicePolicies <- MCServicePolicies
    Streams <- MCStreams
    PreludeConfigs <- MCPreludeConfigs
    ForwardRequests <- MCForwardRequests
    Signature <- MCSignature
    V1Prefix <- MCV1Prefix
    H2_PREFACE <- MCPreface
    TlsHello <- MCHello
    V1Max = 7
    V2MaxLen = 2
    ReadSize = 3
    MaxRequests = 1
    TlsCalls <- MCTlsCalls
    TlsFileCalls <- MCTlsFileCalls
    TlsHellos <- MCTlsHellos
    TlsConnections = {c1}
    TlsRuntimes <- MCTlsRuntimes
    MaxIdentities = 2
    MaxSni = 3
    MaxRoots = 2
    MaxCrls = 1
    MaxAlpn = 2
    MaxChain = 1
    MaxPeerChain = 2
    Junk = "junk"
    MaxTlsCalls = 3
    MaxGeneration = 2

INVARIANTS
    StreamKeepsPromises
    InterimRulesHold
    FramingIsRight
    RuntimeOwnsItsFields
    DispatchIsSound
    BodyVerdictIsTrue
    PreludeIsSound
