SPECIFICATION FairSpec
CONSTANTS
    MaxIncidents = 3
    Detectors = {d1}
    Roles = {r1}
    None = None
    ListLimit = 9
    RecoverLimit = 9
    MaxAttempts = 2
    MaxArrivals = 1
    MaxFaults = 1
    MaxCrashes = 1
    MaxHookCalls = 0
PROPERTIES
    ImplementsLifecycle
    EveryIncidentEnds
    FifoAdvances
CHECK_DEADLOCK FALSE
