SPECIFICATION Spec
CONSTANTS
    MaxIncidents = 2
    Detectors = {d1}
    Roles = {r1, r2}
    None = None
    ListLimit = 1
    RecoverLimit = 1
    MaxAttempts = 2
    MaxArrivals = 2
    MaxFaults = 1
    MaxCrashes = 1
    MaxHookCalls = 1
SYMMETRY Symmetry
INVARIANTS
    TypeOK
    ConclusionMatchesTask
    OneTaskPerIncident
CHECK_DEADLOCK FALSE
