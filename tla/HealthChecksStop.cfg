SPECIFICATION ChecksSpec
CONSTANTS
    Endpoints = {e1}
    ChannelSize = 1
    MaxRestarts = 1
    HealthyThreshold = 1
    UnhealthyThreshold = 1
    MaxResults = 1
    NoEndpoint = NoEndpoint
PROPERTIES
    StopCompletes
CHECK_DEADLOCK FALSE
