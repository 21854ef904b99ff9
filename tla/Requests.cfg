SPECIFICATION RequestsSpec
CONSTANTS
    Runtimes = {r1}
    Configs <- MCConfigs
    BroadcastSize = 1
    MaxGenerations = 2
    MaxRemovals = 1
    MaxRoutes = 2
    MaxSecrets = 2
    ChainLength = 2
    MaxUpdates = 2
    RouteNames = {"a", "b"}
    MaxFrames = 2
    MergeLimit = 2
    MaxDomains = 3
    MaxHops = 2
    MaxRetries = 2
    MaxChannels = 3
    RouteTimeout = 2
    PerTryTimeout = 1
    RetryOns <- MCRetryOns
    MaxChain = 3
    Formats = {"w3c", "uber", "b3", "b3multi"}
INVARIANTS
    ListenersKept
    PipelineKept
    BodyIntact
    RetriesKept
    DecisionsKept
CHECK_DEADLOCK FALSE
