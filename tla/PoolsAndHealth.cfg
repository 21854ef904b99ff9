SPECIFICATION TasksSpec
CONSTANTS
    Threads = {t1, t2}
    Values = {a, b, c}
    InitValue = a
    MaxVersion = 3
    H1Requests = {q1, q2, q3}
    H1Conns = {k1, k2}
    H1NoConn = H1NoConn
    Quiet = Quiet
    Requests = {q1, q2, q3}
    Conns = {k1, k2}
    NoConn = NoConn
    MaxStreams = 2
    MaxAbandoned = 1
    Endpoints = {e1, e2}
    ChannelSize = 1
    MaxRestarts = 1
    HealthyThreshold = 1
    UnhealthyThreshold = 2
    MaxResults = 7
    NoEndpoint = NoEndpoint
    TxRequests = {q1, q2}
    Tries = {t1, t2}
    PoolCap = 1
    TracingOn = FALSE
INVARIANTS
    TransactionsKept
    StreamsKept
    ExchangesKept
    MapAgreesWithChecker
    StatusMatchesHistory
PROPERTIES
    EventuallyFresh
    BusyConnectionsStay
    IdleReaped
    IdleLeaves
    ChangeReachesMap
    ForwardedIsFlushed
CHECK_DEADLOCK FALSE
