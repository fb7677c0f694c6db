SPECIFICATION FairSpec
CONSTANTS
    MaxIncidents = 1
    Detectors = {d1}
    Roles = {r1}
    None = None
    ListLimit = 9
    RecoverLimit = 9
    MaxAttempts = 1
    MaxArrivals = 1
    MaxFaults = 1
    MaxCrashes = 0
    MaxHookCalls = 0
PROPERTIES
    EvidenceIsConcluded
CHECK_DEADLOCK FALSE
