SPECIFICATION FairSpec
CONSTANTS
    Keys = {k1, k2}
    Producers = {watcher}
    QueueCapacity = 2
    DedupCapacity = 2
    ListLimit = 2
    IncidentLimit = 5
    MaxIncidents = 5
    MaxCrashes = 2
    MaxFaults = 1
    NoItem = NoItem
INVARIANTS
    QueuedOnce
PROPERTIES
    FifoOrder
    AdmittedIsSettled
    StartupCompletes
CHECK_DEADLOCK FALSE
