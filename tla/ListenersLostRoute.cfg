SPECIFICATION FairListenersSpec
CONSTANTS
    Runtimes = {r1}
    Configs <- RoutedConfigs
    BroadcastSize = 2
    MaxGenerations = 1
    MaxRemovals = 0
    MaxRoutes = 1
    MaxSecrets = 0
PROPERTIES
    AcceptedIsApplied
CHECK_DEADLOCK FALSE
