SPECIFICATION PathSpec
CONSTANTS
    Resources = {"Config", "RouteConfiguration"}
    MaxElements = 2
    Conns = {m1, m2}
    MaxLimited = 1
    MaxBytes = 2
    MaxReplay = 1
    TlvTypes = {"t1", "t2"}
    V1MaxLength = 4
    PayloadLength = 2
    Width = 2
    DestRanges <- MCDestRanges
    SourceRanges <- MCSourceRanges
    ServerNames <- MCServerNames
    Ports = {1}
    Addresses <- MCAddresses
    SecretIds = {s1, s2}
    Runtimes = {m1, m2}
    MaxVersions = 3
    SanNames <- MCSanNames
    SniNames <- MCSniNames
    ClusterNames <- MCClusterNames
    Authorities = {m1, m2}
    MaxMapUpdates = 3
    NoCluster = NoCluster
    MaxEndpoints = 3
    MaxWeight = 3
    MinRingSize = 4
    MaxRingSize = 8
    TableSize = 5
SYMMETRY Symmetry
INVARIANTS
    VerdictIsRight
    ConnectionsKept
    SecretsServed
    HealthIsServed
    BalancersKeepPromises
CHECK_DEADLOCK FALSE
