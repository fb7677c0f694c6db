SPECIFICATION Spec
CONSTANTS
    Keys = {k1, k2}
    Producers = {watcher, injector}
    QueueCapacity = 2
    DedupCapacity = 1
    ListLimit = 1
    IncidentLimit = 2
    MaxIncidents = 3
    MaxCrashes = 1
    MaxFaults = 2
    NoItem = NoItem
SYMMETRY Symmetry
INVARIANTS
    TypeOK
    CompletedIsResolved
    WorkIsExclusive
PROPERTIES
    FinalRecordsStay
    RestartSeedsEverything
CHECK_DEADLOCK FALSE
