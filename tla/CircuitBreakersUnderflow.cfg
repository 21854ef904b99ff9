SPECIFICATION BreakerSpec
CONSTANTS
    Threads = {t1, t2}
    Values <- Maps
    InitValue <- BootstrapMap
    MaxVersion = 2
    Clusters = {c1}
    Priorities = {default}
    Requests = {r1, r2}
    Retries = {}
    Limits = {1}
    Word = 8
    Churned = {c1}
    NoCluster = NoCluster
    NoBreaker = NoBreaker
    None = None
PROPERTIES
    NoUnderflow
