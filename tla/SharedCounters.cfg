SPECIFICATION CountersSpec
CONSTANTS
    Threads = {t1, t2}
    Values <- Maps
    InitValue <- BootstrapMap
    MaxVersion = 2
    Clusters = {c1, c2}
    Priorities = {default}
    Requests = {r1, r2}
    Retries = {y1}
    Limits = {1, 2}
    Word = 8
    Churned = {c2}
    NoCluster = NoCluster
    NoBreaker = NoBreaker
    None = None
    LimitThreads = {t1, t2, t3}
    Conns = {r1, r2, d3, d4, d5}
    MaxLimit = 2
    LimitValues = {1, 2}
    NoThread = NoThread
    Workers = {t1, t2, w3}
    MaxTokens = 2
    TokensPerFill = 2
    FillInterval = 3
    NumRuntimes = 1
    MaxTime = 4
    TcpDials = {t1, t2}
    HttpDials = {r1, r2}
    MaxConnections = 2
    ConnectionWord = 16
    MaxFaults = 2
SYMMETRY Symmetry
INVARIANTS
    CopiesCoherent
    CountIsExact
    ActiveIsExact
    OvershootBounded
    RateBounded
    DialsAccounted
PROPERTIES
    NeverBackwards
    AdmissionWithinLimit
    TimeNeverBack
