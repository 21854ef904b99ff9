SPECIFICATION ServicesSpec
CONSTANTS
    Resources <- MCResources
    TypeOf <- MCTypeOf
    EndpointsOf <- MCEndpointsOf
    SecretOf <- MCSecretOf
    Undecodable <- MCUndecodable
    Invalid <- MCInvalid
    MaxVersion = 3
    MaxChanges = 3
    MaxFaults = 1
    MaxFrames = 1
    MergeLimit = 2
    ProxyRuntimes = {p1, p2}
    StaticListeners = 2
    ChannelLength = 1
INVARIANTS
    StartsInOrder
PROPERTIES
    DeclaresWhatIsInForce
    Converges
    AlwaysDecided
CHECK_DEADLOCK FALSE
