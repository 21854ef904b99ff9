SPECIFICATION FiltersSpec
CONSTANTS
    Txs = {p1, p2}
    Instances = {q1, q2}
    PoolSize = 1
    Nobody = Nobody
    MaxBody = 1
    MaxCalls = 1
    Plugins <- MCPlugins
    StackBuf = 1
    HeapBuf = 2
    RequestBuf = 3
    MaxSize = 5
    MaxTime = 2
    Guests = {p1, p2}
    SharedNames = {n1, n2}
    Capacity = 1
    Width = 2
    MaxAdds = 2
    LimitTasks = {p1, p2, k3}
    MaxGrant = 2
    MaxGrants = 2
    BucketSize = 1
    FailureModeDeny = TRUE
    NoTask = NoTask
    AuthTasks = {k1}
    MaxRotations = 1
    KeyLife = 1
    CacheTtl = 2
    MaxAuthTime = 2
    ForwardToken = FALSE
    Flows = {1, 2}
    MaxOAuthTime = 4
    CsrfLife = 2
    VerifierLife = 2
    SessionLife = 1
    RefreshLife = 3
    LogThreads = {1, 2}
    Loggers = {1, 2}
    QueueLength = 2
    BatchCapacity = 1
    MaxLines = 2
    MaxFormat = 3
    Workers = {p1, p2}
    MaxCells = 3
    MaxActive = 1
    MaxResets = 1
    Bounds <- MCBounds
    MaxValue = 3
SYMMETRY Symmetry
INVARIANTS
    PluginsKept
    QuotasKept
    AdmissionsKept
    ObservationsKept
CHECK_DEADLOCK FALSE
