SPECIFICATION MetricsSpec
CONSTANTS
    Workers = {w1, w2}
    MaxCells = 3
    MaxActive = 2
    MaxResets = 1
    Bounds <- SingleBound
    MaxValue = 1
PROPERTIES
    HitIsInMap
CHECK_DEADLOCK FALSE
